---- MODULE Spec2Model ----
(***************************************************************************)
(* The client-side lecture video compositor: exportLectureToWebM, its      *)
(* source loader (PDF snapshot cache) and the capture session it drives.   *)
(* One export call is modelled as a state machine whose steps are the      *)
(* synchronous runs of the async function between two suspension points;   *)
(* the browser (image/PDF loads, media element, timers, MediaRecorder) is  *)
(* the environment and chooses every outcome the platform can produce.     *)
(* Time is in milliseconds.  Resource loads take no model time.  The       *)
(* slides of the draft are read when the loop reaches them, as the code    *)
(* does; the variables of one loop iteration are block scoped and are      *)
(* cleared when the iteration ends.                                        *)
(* Besides the export call (Spec, FairSpec, TimingSpec, HostSpec) the      *)
(* module holds smaller machines over the same variables: clients that     *)
(* call getPdfSnapshotImage concurrently (LoaderSpec); drawSlide as the    *)
(* sequence of 2D context commands it issues (PaintSpec, and ImageSpec,    *)
(* ExcerptSpec, ThemeSpec for image sizes, excerpt panels and themes);     *)
(* the word-wrapping routines (WrapSpec); the exporter of                  *)
(* services/videoExporter.ts (SimpleSpec, SimpleFairSpec); and the         *)
(* PomodoroTimer component (TimerSpec).                                    *)
(***************************************************************************)
EXTENDS Integers, Sequences, FiniteSets, TLC

VARIABLES
  pc,              \* position of the async function
  fps,             \* opts.fps
  defaultDur,      \* opts.defaultSlideDurationMs
  numSlides,       \* draft.slides.length
  hasPdfData,      \* draft.pdfDocumentBase64 is present
  host,            \* what the browser provides: 2D context, vp9 and vp8 recording
  pdfDocument,     \* TRUE when loadPdfDocumentFromDraft returned a document
  totalPdfPages,   \* pdfDocument?.numPages ?? 0
  cache,           \* pdfSnapshotCache: key -> "absent" | "pending" | "img" | "null"
  slideIndex,      \* loop variable of the slide loop
  slide,           \* draft.slides[slideIndex]
  resolvedPdfPage, \* 0 stands for undefined
  backgroundImage, \* "img" | "null"
  snapshotImage,   \* "img" | "null"
  durationMs,      \* frame-pacing duration of the current slide
  frames,          \* number of repaints of the current slide
  i,               \* loop variable of the frame loop
  audioCtx,        \* "none" | "running" | "closed"
  recorder,        \* "none" | "recording" | "stopping" | "stopped"
  handlers,        \* event handlers registered on the current audio element
  onstop,          \* recorder.onstop is registered
  mime,            \* the container/codec string chosen, "none" before the choice
  recorderMime,    \* options.mimeType the recorder was constructed with
  chunks,          \* the chunks the dataavailable handler kept
  emitted,         \* every chunk the recorder emitted, in order
  blob,            \* the Blob the call resolved with
  connected,       \* number of media element sources connected to dest
  playing,         \* slide indexes whose audio element is playing
  audio,           \* fate of the current slide's audio element
  playedMs,        \* how long the current slide's audio played
  now,             \* the clock, ms since the call
  starts,          \* calls of recorder.start()
  stops,           \* calls of recorder.stop()
  stopAt,          \* clock at recorder.stop()
  painted,         \* the drawSlide calls made for the current slide
  slideStartAt,    \* clock at the current slide's initial paint
  gap,             \* ms between the two latest paints of the current slide
  lastPaintSlide,  \* slide index of the latest drawSlide call, -1 before the first
  lastPaintAt,     \* clock at the latest drawSlide call
  initials,        \* slides that received their initial paint
  repainted,       \* slides that received at least one repaint
  failed,          \* per-resource failures met by the current slide
  fault,           \* the exception that rejected the call, "none" otherwise
  issued,          \* getPdfSnapshotImage calls made by a client of the loader
  waiting,         \* the calls whose promise has not been delivered yet
  answers,         \* the calls that received the value of their promise
  renderStarts,    \* page -> number of times its rasterization was started
  args,            \* the arguments of the drawSlide calls made on the surface
  path,            \* the current path of the 2D context: its subpaths, in order
  ink,             \* what the latest drawSlide call painted, in order
  firstInk,        \* what the first drawSlide call painted
  calls,           \* drawSlide calls made on the surface
  themeStyle,      \* what getThemeStyle returned to the latest drawSlide call
  threw,           \* the latest drawSlide call ended with a TypeError
  text,            \* the string handed to a wrapping routine, glyph by glyph
  maxWidth,        \* the width available to its lines
  lines,           \* the strings the routine handed to fillText, in order
  routine,         \* the wrapping routine that ran last, "none" before the first
  ended,           \* the local `ended` of the exporter of services/videoExporter.ts
  mounted,         \* whether a PomodoroTimer component is mounted
  phase,           \* its state: "focus", "short" or "long"
  running,         \* its state: whether the countdown runs
  endAt,           \* its state: the time the countdown ends (ms), NoEnd for null
  remaining,       \* its state: the seconds shown
  completedFocus,  \* its state: focus phases completed since the mount
  stored,          \* localStorage['pomodoro_state_v1']
  clock,           \* Date.now() as the component reads it (ms)
  elapses,         \* how many times the clock has advanced
  lastEvent        \* the handler of the component that ran last

vars == <<pc, fps, defaultDur, numSlides, hasPdfData, host, mime, recorderMime,
          chunks, emitted, blob, pdfDocument, totalPdfPages,
          cache, slideIndex, slide, resolvedPdfPage, backgroundImage, snapshotImage,
          durationMs, frames, i, audioCtx, recorder, handlers, onstop, connected,
          playing, audio, playedMs, now, starts, stops, stopAt, painted,
          slideStartAt, gap, lastPaintSlide, lastPaintAt, initials, repainted,
          failed, fault, issued, waiting, answers, renderStarts, args, path, ink,
          firstInk, calls, themeStyle, threw, text, maxWidth, lines, routine,
          ended, mounted, phase, running, endAt, remaining, completedFocus,
          stored, clock, elapses, lastEvent>>

inputVars == <<fps, defaultDur, numSlides, hasPdfData, host>>
pdfVars == <<pdfDocument, totalPdfPages>>
slideVars == <<slideIndex, slide, resolvedPdfPage>>
imageVars == <<backgroundImage, snapshotImage>>
frameVars == <<durationMs, frames, i>>
sessionVars == <<audioCtx, recorder, onstop, starts, stops, stopAt>>
captureVars == <<mime, recorderMime, chunks, emitted, blob>>
audioVars == <<handlers, connected, playing, audio, playedMs>>
paintVars == <<painted, slideStartAt, gap, lastPaintSlide, lastPaintAt, initials,
               repainted>>
loaderVars == <<issued, waiting, answers, renderStarts>>
canvasVars == <<args, path, ink, firstInk, calls, themeStyle, threw>>
wrapVars == <<text, maxWidth, lines, routine>>
simpleVars == <<ended>>
\* the machines beside the export call, the loader and the canvas
timerVars == <<mounted, phase, running, endAt, remaining, completedFocus,
               stored, clock, elapses, lastEvent>>
sideVars == <<wrapVars, simpleVars, timerVars>>
\* what the wrapping routines, the second exporter and the timer leave alone of them
besideWrap == <<simpleVars, timerVars>>
besideSimple == <<wrapVars, timerVars>>
besideTimer == <<wrapVars, simpleVars>>
\* the export call, its document and cache apart
callVars == <<pc, inputVars, slideVars, imageVars, frameVars, sessionVars,
              captureVars, audioVars, paintVars, now, failed, fault>>

(* ------------------------------ bounds -------------------------------- *)
MaxSlides == 2
MaxPages == 3
MaxRequests == 3
MaxChunks == 2
MaxCalls == 2
MaxLen == 5
MaxExcerptLines == 9
MaxElapses == 3
MaxCompleted == 4

(* ------------------------- program constants -------------------------- *)
AUDIO_TAIL_MS == 280
FINAL_HOLD_MS == 250
DEFAULT_WIDTH == 1280
DEFAULT_HEIGHT == 720
INNER_PADDING == 36
HEADING_LINE == 58
GUTTER == 28
EXCERPT_PADDING == 20
EXCERPT_HEADER == 30
EXCERPT_LINE == 26
BULLET_LINE == 40
ACCENT_COUNT == 6
SPECKLE_COUNT == 80

NaN == 0 - 1

\* BASE_THEME_STYLE; the two stops of a gradient are written "first / second"
BASE_THEME_STYLE ==
  [background |-> "#0b1220 / #111c36",
   overlay |-> "rgba(15, 23, 42, 0.88) / rgba(15, 23, 42, 0.45)",
   cardFill |-> "rgba(13, 20, 36, 0.9)",
   cardStroke |-> "rgba(99, 102, 241, 0.25) / rgba(59, 130, 246, 0.08)",
   headingLabel |-> "#a5b4fc",
   headingText |-> "#f8fafc",
   summaryText |-> "#d0d6f7",
   bulletColor |-> "#6366f1",
   chipGradient |-> "rgba(99, 102, 241, 0.55) / rgba(129, 140, 248, 0.8)",
   chipText |-> "rgba(15, 23, 42, 0.85)",
   progressTrack |-> "rgba(148, 163, 184, 0.25)",
   progressFill |-> "rgba(99, 102, 241, 0.9)",
   mediaBorder |-> "rgba(129, 140, 248, 0.8) / rgba(96, 165, 250, 0.6)",
   shadow |-> "rgba(8, 13, 28, 0.55)"]
ThemeFields == DOMAIN BASE_THEME_STYLE
\* { ...BASE_THEME_STYLE, field: value, ... }
Spread(own) ==
  [f \in ThemeFields |-> IF f \in DOMAIN own THEN own[f] ELSE BASE_THEME_STYLE[f]]
THEME_STYLES ==
  "data-structures" :> Spread(
      [background |-> "#051320 / #06263b",
       overlay |-> "rgba(8, 25, 42, 0.9) / rgba(8, 25, 42, 0.55)",
       headingLabel |-> "#5eead4",
       headingText |-> "#ecfeff",
       summaryText |-> "#ccfbf1",
       bulletColor |-> "#2dd4bf",
       chipGradient |-> "rgba(34, 211, 238, 0.6) / rgba(14, 165, 233, 0.75)",
       progressFill |-> "rgba(34, 211, 238, 0.9)",
       mediaBorder |-> "rgba(45, 212, 191, 0.9) / rgba(59, 130, 246, 0.6)"])
  @@ "algorithms" :> Spread(
      [background |-> "#12061f / #22073a",
       headingLabel |-> "#f472b6",
       headingText |-> "#fdf4ff",
       summaryText |-> "#f9a8d4",
       bulletColor |-> "#ec4899",
       chipGradient |-> "rgba(244, 114, 182, 0.65) / rgba(236, 72, 153, 0.75)",
       progressFill |-> "rgba(236, 72, 153, 0.9)",
       mediaBorder |-> "rgba(236, 72, 153, 0.85) / rgba(168, 85, 247, 0.6)"])
  @@ "programming" :> Spread(
      [background |-> "#030617 / #050b27",
       headingLabel |-> "#38bdf8",
       headingText |-> "#e0f2fe",
       summaryText |-> "#bae6fd",
       bulletColor |-> "#0ea5e9",
       chipGradient |-> "rgba(14, 165, 233, 0.6) / rgba(59, 130, 246, 0.7)",
       progressFill |-> "rgba(14, 165, 233, 0.9)",
       mediaBorder |-> "rgba(14, 165, 233, 0.85) / rgba(2, 132, 199, 0.7)"])
  @@ "parallelism" :> Spread(
      [background |-> "#071225 / #0b1f3f",
       headingLabel |-> "#facc15",
       headingText |-> "#fef08a",
       summaryText |-> "#fde68a",
       bulletColor |-> "#fbbf24",
       chipGradient |-> "rgba(250, 204, 21, 0.6) / rgba(253, 224, 71, 0.65)",
       chipText |-> "rgba(30, 41, 59, 0.85)",
       progressFill |-> "rgba(250, 204, 21, 0.9)",
       mediaBorder |-> "rgba(250, 204, 21, 0.9) / rgba(251, 191, 36, 0.7)"])
  @@ "security" :> Spread(
      [background |-> "#060c1a / #0f1f2f",
       headingLabel |-> "#f97316",
       headingText |-> "#ffedd5",
       summaryText |-> "#fed7aa",
       bulletColor |-> "#fb923c",
       chipGradient |-> "rgba(249, 115, 22, 0.6) / rgba(251, 146, 60, 0.7)",
       progressFill |-> "rgba(249, 115, 22, 0.9)",
       mediaBorder |-> "rgba(249, 115, 22, 0.85) / rgba(234, 88, 12, 0.65)"])
  @@ "networks" :> Spread(
      [background |-> "#031314 / #052b36",
       headingLabel |-> "#34d399",
       headingText |-> "#d1fae5",
       summaryText |-> "#bbf7d0",
       bulletColor |-> "#22c55e",
       chipGradient |-> "rgba(52, 211, 153, 0.6) / rgba(16, 185, 129, 0.7)",
       progressFill |-> "rgba(16, 185, 129, 0.9)",
       mediaBorder |-> "rgba(16, 185, 129, 0.85) / rgba(5, 150, 105, 0.7)"])
  @@ "databases" :> Spread(
      [background |-> "#050b17 / #0b1931",
       headingLabel |-> "#a78bfa",
       headingText |-> "#ede9fe",
       summaryText |-> "#ddd6fe",
       bulletColor |-> "#8b5cf6",
       chipGradient |-> "rgba(167, 139, 250, 0.65) / rgba(139, 92, 246, 0.75)",
       progressFill |-> "rgba(139, 92, 246, 0.9)",
       mediaBorder |-> "rgba(139, 92, 246, 0.85) / rgba(55, 48, 163, 0.7)"])
  @@ "ai-ml" :> Spread(
      [background |-> "#0c0418 / #160433",
       headingLabel |-> "#f0abfc",
       headingText |-> "#fae8ff",
       summaryText |-> "#f5d0fe",
       bulletColor |-> "#d946ef",
       chipGradient |-> "rgba(240, 171, 252, 0.6) / rgba(217, 70, 239, 0.75)",
       progressFill |-> "rgba(217, 70, 239, 0.9)",
       mediaBorder |-> "rgba(217, 70, 239, 0.85) / rgba(147, 51, 234, 0.65)"])
  @@ "software-engineering" :> Spread(
      [background |-> "#0a0c1b / #141a33",
       headingLabel |-> "#fcd34d",
       headingText |-> "#fef3c7",
       summaryText |-> "#fde68a",
       bulletColor |-> "#f59e0b",
       chipGradient |-> "rgba(252, 211, 77, 0.6) / rgba(251, 191, 36, 0.7)",
       progressFill |-> "rgba(245, 158, 11, 0.9)",
       mediaBorder |-> "rgba(245, 158, 11, 0.85) / rgba(217, 119, 6, 0.65)"])
  @@ "computer-architecture" :> Spread(
      [background |-> "#090412 / #17092d",
       headingLabel |-> "#60a5fa",
       headingText |-> "#dbeafe",
       summaryText |-> "#bfdbfe",
       bulletColor |-> "#3b82f6",
       chipGradient |-> "rgba(96, 165, 250, 0.6) / rgba(59, 130, 246, 0.7)",
       progressFill |-> "rgba(59, 130, 246, 0.9)",
       mediaBorder |-> "rgba(59, 130, 246, 0.85) / rgba(37, 99, 235, 0.65)"])
  @@ "operating-systems" :> Spread(
      [background |-> "#040f14 / #0a1f2b",
       headingLabel |-> "#67e8f9",
       headingText |-> "#ecfeff",
       summaryText |-> "#cffafe",
       bulletColor |-> "#22d3ee",
       chipGradient |-> "rgba(103, 232, 249, 0.6) / rgba(6, 182, 212, 0.7)",
       progressFill |-> "rgba(6, 182, 212, 0.9)",
       mediaBorder |-> "rgba(6, 182, 212, 0.85) / rgba(14, 165, 233, 0.65)"])
\* the properties THEME_STYLES inherits from Object.prototype
ObjectPrototype ==
  {"constructor", "hasOwnProperty", "isPrototypeOf", "propertyIsEnumerable",
   "toLocaleString", "toString", "valueOf", "__proto__", "__defineGetter__",
   "__defineSetter__", "__lookupGetter__", "__lookupSetter__"}
\* a member of Object.prototype read as a ThemeStyle: it has none of the fields
Inherited == [f \in ThemeFields |-> "undefined"]
NoStyle == [f \in ThemeFields |-> "none"]

\* THEME_STYLES[theme] ?? BASE_THEME_STYLE
Lookup(name) ==
  IF name \in DOMAIN THEME_STYLES THEN THEME_STYLES[name]
  ELSE IF name \in ObjectPrototype THEN Inherited
  ELSE BASE_THEME_STYLE

\* getThemeStyle(theme): theme is undefined (not given) or a string
GetThemeStyle(theme) ==
  IF ~theme.given \/ theme.name = "" THEN BASE_THEME_STYLE ELSE Lookup(theme.name)

\* slide.visualTheme
NoTheme == [given |-> FALSE, name |-> ""]
ThemeNames ==
  DOMAIN THEME_STYLES \cup ObjectPrototype \cup {"", "Algorithms", "math", "base", "default"}
ThemeChoices == {NoTheme} \cup {[given |-> TRUE, name |-> n] : n \in ThemeNames}

\* a dataavailable event whose data is missing
NoData == 0 - 1
VP9 == "video/webm;codecs=vp9,opus"
VP8 == "video/webm;codecs=vp8,opus"

(* ------------------------------ inputs -------------------------------- *)
\* <<opts.fps, opts.defaultSlideDurationMs>>
OptionChoices == {<<4, 500>>, <<5, 300>>}
\* the options of the pacing runs: 500 ms at 10 fps, and one frame per slide
TimingOptions == OptionChoices \cup {<<10, 500>>, <<4, 250>>}
\* pdf.numPages of a document that decodes
PageCounts == {1, MaxPages}
\* slide.pdfPage: 0 stands for "not a number >= 1"; MaxPages + 1 lies past the document
PdfPageChoices == {0, 2, MaxPages + 1}
\* playback time (ms) of an audio that plays to its end; 0: shorter than 1 ms
AudioLengths == {0, 100, 400}
\* <<audio.currentTime, audio.duration>> (ms) when an error event fires; the duration
\* is NaN until the metadata is read, and the position is 0 until then
ErrorReports == {<<0, NaN>>, <<0, 600>>, <<400, 600>>}
\* canvas.getContext('2d') # null, MediaRecorder.isTypeSupported of the two strings
Hosts == [ctx : BOOLEAN, vp9 : BOOLEAN, vp8 : BOOLEAN]
\* a browser with everything, one without a 2D context, one without either codec
UsualHosts == {h \in Hosts : h.vp9 = h.vp8 /\ (h.ctx \/ h.vp9)}
\* e.data.size of an emitted chunk
ChunkSizes == {NoData, 0, 2048}
\* the keys a Map<number, ...> of snapshots may be asked for
CacheKeys == (0 - 1) .. (MaxPages + 1)
\* pageNumber of a snapshot request: below 1, in the document, past its end
RequestedPages == {0 - 1, 0, 1, MaxPages, MaxPages + 1}
Slides == [pdfPage : PdfPageChoices, imageUrl : BOOLEAN, audioUrl : BOOLEAN]
NoSlide == [pdfPage |-> 0, imageUrl |-> FALSE, audioUrl |-> FALSE]
\* the progress argument of drawSlide, <<numerator, denominator>>: below 0, in
\* [0, 1], above 1
ProgressChoices == {<<0 - 1, 2>>, <<0, 1>>, <<1, 2>>, <<1, 1>>, <<3, 2>>}
\* the values the calls of Math.random() of one drawSlide call return, as a whole
RandomStreams == {1, 2}
\* what drawSlide reads of its arguments: the two images, slide.pdfPage, the
\* summary segments, slide.pdfExcerpt, slide.codeSnippet with or without
\* snippetLanguage, slideIndex, totalSlides, progress
\* the canvas of the call: opts.width ?? 1280 by opts.height ?? 720
DefaultCanvas == <<DEFAULT_WIDTH, DEFAULT_HEIGHT>>
\* image.width and image.height of a loaded image; NoSize stands for null
LoadedSize == <<4, 3>>
NoSize == <<0, 0>>
ImageSizes == {<<0, 0>>, <<0, 3>>, <<4, 0>>, LoadedSize}
PaintArgs ==
  {a \in [canvas : {DefaultCanvas}, visualTheme : {NoTheme},
          bg : BOOLEAN, bgSize : {NoSize, LoadedSize},
          snap : BOOLEAN, snapSize : {NoSize, LoadedSize},
          page : BOOLEAN, bullets : 0 .. 1,
          excerpt : BOOLEAN, excerptLines : 0 .. 1,
          code : {"none", "plain", "lang"},
          slideIndex : 0 .. MaxSlides - 1, totalSlides : 1 .. MaxSlides,
          progress : ProgressChoices] :
     /\ a.slideIndex < a.totalSlides
     /\ a.excerptLines = (IF a.excerpt THEN 1 ELSE 0)
     /\ a.bgSize = (IF a.bg THEN LoadedSize ELSE NoSize)
     /\ a.snapSize = (IF a.snap THEN LoadedSize ELSE NoSize)}
\* calls on the default canvas with images of every size, a width or a height
\* of zero included
ImageArgs ==
  {a \in [canvas : {DefaultCanvas}, visualTheme : {NoTheme},
          bg : BOOLEAN, bgSize : ImageSizes,
          snap : BOOLEAN, snapSize : ImageSizes,
          page : BOOLEAN, bullets : 0 .. 1,
          excerpt : BOOLEAN, excerptLines : 0 .. 1, code : {"none"},
          slideIndex : {0}, totalSlides : {1},
          progress : {<<1, 2>>}] :
     /\ (~a.bg => a.bgSize = NoSize)
     /\ (~a.snap => a.snapSize = NoSize)
     /\ a.excerptLines = (IF a.excerpt THEN 1 ELSE 0)}
\* calls with an excerpt of several lines, after summaries of several
\* segments, on canvases of several sizes
CanvasChoices == {DefaultCanvas, <<400, 300>>, <<2560, 1440>>}
BulletChoices == {0, 1, 5}
ExcerptLengths == {1, 4, MaxExcerptLines}
ExcerptArgs ==
  {a \in [canvas : CanvasChoices, visualTheme : {NoTheme},
          bg : BOOLEAN, bgSize : {NoSize, LoadedSize},
          snap : BOOLEAN, snapSize : {NoSize, LoadedSize},
          page : BOOLEAN, bullets : BulletChoices,
          excerpt : {TRUE}, excerptLines : ExcerptLengths, code : {"none"},
          slideIndex : {0}, totalSlides : {1},
          progress : {<<1, 2>>}] :
     /\ a.bgSize = (IF a.bg THEN LoadedSize ELSE NoSize)
     /\ a.snapSize = (IF a.snap THEN LoadedSize ELSE NoSize)}
\* calls with every value of slide.visualTheme
ThemeArgs ==
  {a \in [canvas : {DefaultCanvas}, visualTheme : ThemeChoices,
          bg : BOOLEAN, bgSize : {NoSize, LoadedSize},
          snap : BOOLEAN, snapSize : {NoSize, LoadedSize},
          page : {FALSE}, bullets : {1},
          excerpt : {FALSE}, excerptLines : {0}, code : {"none"},
          slideIndex : {0}, totalSlides : {1},
          progress : {<<1, 2>>}] :
     /\ a.bgSize = (IF a.bg THEN LoadedSize ELSE NoSize)
     /\ a.snapSize = (IF a.snap THEN LoadedSize ELSE NoSize)}
NoArgs == [canvas |-> DefaultCanvas, visualTheme |-> NoTheme, bg |-> FALSE, bgSize |-> NoSize,
           snap |-> FALSE, snapSize |-> NoSize, page |-> FALSE, bullets |-> 0,
           excerpt |-> FALSE, excerptLines |-> 0, code |-> "none",
           slideIndex |-> 0, totalSlides |-> 1, progress |-> <<0, 1>>]
NoBlob == [type |-> "none", parts |-> <<>>]
NoPaints == [initial |-> FALSE, repaints |-> 0, bg |-> "null", snap |-> "null",
             pdfPage |-> 0, progress |-> <<0, 1>>]

(* ------------------------------ helpers ------------------------------- *)
Max(a, b) == IF a >= b THEN a ELSE b
Min(a, b) == IF a <= b THEN a ELSE b
CeilDiv(a, b) == (a + b - 1) \div b

\* sleep(1000 / fps)
FrameInterval == 1000 \div fps

\* Math.min(Math.max(1, Math.floor(pageNumber)), pdf.numPages)
Clamp(pageNumber, numPages) == Min(Max(1, pageNumber), numPages)

\* the raw page number
RawKey(pageNumber, numPages) == pageNumber

\* getPdfSnapshotImage: const clamped = ...; cache.has(clamped), cache.set(clamped, ...)
CacheKey(pageNumber, numPages) == Clamp(pageNumber, numPages)

\* renderPdfPageToDataUrl: const clamped = ...; pdf.getPage(clamped)
RenderedPage(pageNumber, numPages) == Clamp(pageNumber, numPages)

\* the page chosen for a slide (0 = undefined)
ResolvePdfPage(s, idx, hasDoc, total) ==
  IF hasDoc
    THEN IF s.pdfPage >= 1 THEN s.pdfPage
         ELSE IF total # 0 THEN (idx % total) + 1 ELSE 0
    ELSE IF s.pdfPage >= 1 THEN s.pdfPage ELSE 0

\* slideForRender.pdfPage
RenderPdfPage(s, resolved) ==
  IF resolved # 0 /\ resolved # s.pdfPage THEN resolved ELSE s.pdfPage

\* Math.floor(audio.currentTime * 1000) || Math.floor(audio.duration * 1000) || defaultDur
PlaybackMs(currentTime, duration, dflt) ==
  IF currentTime # 0 THEN currentTime
  ELSE IF duration # NaN /\ duration # 0 THEN duration
  ELSE dflt

\* the playback time plus the tail, whatever the default
PlaybackPlusTail(playbackMs, dflt) == playbackMs + AUDIO_TAIL_MS

\* Math.max(defaultDur, playbackMs + 280)
AudioDuration(playbackMs, dflt) == Max(dflt, playbackMs + AUDIO_TAIL_MS)

\* the quotient rounded down
FloorFrames(d, f) == Max(1, (d * f) \div 1000)

\* Math.max(1, Math.ceil(durationMs / (1000 / fps)))
Frames(d, f) == Max(1, CeilDiv(d * f, 1000))

\* i / frames
ProgressOverFrames(k, n) == <<k, n>>

\* frames > 1 ? i / (frames - 1) : 1, as <<numerator, denominator>>
Progress(k, n) == IF n > 1 THEN <<k, n - 1>> ELSE <<1, 1>>

\* only audio.onended is set
OnlyEndedHandler == {"ended"}

\* audio.onended = ...; audio.onerror = ...
RegisteredHandlers == {"ended", "error"}

\* vp9 whatever the host reports
AlwaysVp9(h) == VP9

\* MediaRecorder.isTypeSupported(vp9) ? vp9 : vp8
ChooseMime(h) == IF h.vp9 THEN VP9 ELSE VP8

\* the context is used without a null test
ContextAssumed(h) == FALSE

\* !ctx
ContextMissing(h) == ~h.ctx

\* new MediaRecorder(mixed, { mimeType }) throws NotSupportedError
Unsupported(h, mimeType) ==
  ~((mimeType = VP9 /\ h.vp9) \/ (mimeType = VP8 /\ h.vp8))

\* every chunk is kept
KeepEveryChunk(size) == TRUE

\* e.data && e.data.size > 0
KeepChunk(size) == size # NoData /\ size > 0

\* a failed snapshot is rendered again
MissOrFailed(key) == cache[key] \in {"absent", "null"}

\* !cache.has(clamped)
CacheMiss(key) == cache[key] = "absent"

\* the pages whose snapshot an earlier request of this export asked for
UsedPages == {p \in 1 .. MaxPages : cache[p] # "absent"}

(* ------------------------------- Init --------------------------------- *)
\* nothing has run yet: no local is set, no browser object exists
\* const DEFAULT_DURATIONS = { focus: 25 * 60, short: 5 * 60, long: 15 * 60 }
durations == [focus |-> 25 * 60, short |-> 5 * 60, long |-> 15 * 60]

\* endAt: number | null; every reader tests it for truth
NoEnd == 0 - 1
Truthy(e) == e > 0

\* localStorage.getItem(STORAGE_KEY) is null until the component writes
NoStored == [present |-> FALSE, phase |-> "focus", endAt |-> NoEnd, running |-> FALSE]

\* the reading of Date.now() at the start, and the advances of the clock (ms):
\* part of a second, a short break, a focus phase
FirstClock == 1000
Elapses == {600, 5 * 60 * 1000, 25 * 60 * 1000}

Quiet ==
  /\ cache = [k \in CacheKeys |-> "absent"]
  /\ slideIndex = 0
  /\ slide = NoSlide
  /\ resolvedPdfPage = 0
  /\ backgroundImage = "null"
  /\ snapshotImage = "null"
  /\ durationMs = 0
  /\ frames = 0
  /\ i = 0
  /\ audioCtx = "none"
  /\ recorder = "none"
  /\ handlers = {}
  /\ onstop = FALSE
  /\ mime = "none"
  /\ recorderMime = "none"
  /\ chunks = <<>>
  /\ emitted = <<>>
  /\ blob = NoBlob
  /\ connected = 0
  /\ playing = {}
  /\ audio = "none"
  /\ playedMs = 0
  /\ now = 0
  /\ starts = 0
  /\ stops = 0
  /\ stopAt = 0
  /\ painted = NoPaints
  /\ slideStartAt = 0
  /\ gap = 0
  /\ lastPaintSlide = 0 - 1
  /\ lastPaintAt = 0
  /\ initials = 0
  /\ repainted = 0
  /\ failed = {}
  /\ fault = "none"
  /\ issued = 0
  /\ waiting = {}
  /\ answers = {}
  /\ renderStarts = [p \in 1 .. MaxPages |-> 0]
  /\ path = <<>>
  /\ ink = <<>>
  /\ firstInk = <<>>
  /\ calls = 0
  /\ themeStyle = NoStyle
  /\ threw = FALSE

\* no text is being wrapped
NoWrap ==
  /\ text = <<>>
  /\ maxWidth = 0
  /\ lines = <<>>
  /\ routine = "none"

\* no PomodoroTimer has been mounted and nothing is stored
NoTimer ==
  /\ mounted = FALSE
  /\ phase = "focus"
  /\ running = FALSE
  /\ endAt = NoEnd
  /\ remaining = durations["focus"]
  /\ completedFocus = 0
  /\ stored = NoStored
  /\ clock = FirstClock
  /\ elapses = 0
  /\ lastEvent = "none"

Fresh == Quiet /\ NoWrap /\ ended = FALSE /\ NoTimer

\* the state at the call, for a set of options and of draft lengths
InitWith(options, slideCounts, hosts) ==
  /\ pc = "loadPdf"
  /\ host \in hosts
  /\ \E o \in options :
       /\ fps = o[1]
       /\ defaultDur = o[2]
  /\ numSlides \in slideCounts
  /\ hasPdfData \in BOOLEAN
  /\ pdfDocument = FALSE
  /\ totalPdfPages = 0
  /\ args = NoArgs
  /\ Fresh

Init == InitWith(OptionChoices, 0 .. MaxSlides, UsualHosts)

\* one-slide drafts under the wider choice of options
TimingInit == InitWith(TimingOptions, {1}, UsualHosts)

\* one-slide drafts on every host
HostInit == InitWith({<<4, 500>>}, {1}, Hosts)

(* ------------------------------ actions ------------------------------- *)
\* drawSlide(ctx, slideForRender, backgroundImage, snapshotImage, ..., progress)
DrawSlide(kind, progress) ==
  /\ painted' = [initial |-> painted.initial \/ kind = "initial",
                 repaints |-> painted.repaints + (IF kind = "repaint" THEN 1 ELSE 0),
                 bg |-> backgroundImage, snap |-> snapshotImage,
                 pdfPage |-> RenderPdfPage(slide, resolvedPdfPage),
                 progress |-> progress]
  /\ slideStartAt' = IF kind = "initial" THEN now' ELSE slideStartAt
  /\ gap' = IF lastPaintSlide = slideIndex THEN now' - lastPaintAt ELSE 0
  /\ lastPaintSlide' = slideIndex
  /\ lastPaintAt' = now'
  /\ initials' = initials + (IF kind = "initial" THEN 1 ELSE 0)
  /\ repainted' = repainted + (IF kind = "repaint" /\ painted.repaints = 0 THEN 1 ELSE 0)

\* an exception leaves the async function: the promise rejects
Throw(what) ==
  /\ pc' = "rejected"
  /\ fault' = what

\* const frames = ...; the frame loop starts at i = 0
StartFrames(d) ==
  /\ durationMs' = d
  /\ frames' = Frames(d, fps)
  /\ i' = 0
  /\ pc' = "frameSleep"

\* loadPdfDocumentFromDraft: a missing or undecodable document gives null
LoadPdf ==
  /\ pc = "loadPdf"
  /\ \E decoded \in BOOLEAN, pages \in PageCounts :
       /\ (~(hasPdfData /\ decoded)) => pages = 1
       /\ (~hasPdfData) => decoded
       /\ pdfDocument' = (hasPdfData /\ decoded)
       /\ totalPdfPages' = IF hasPdfData /\ decoded THEN pages ELSE 0
  /\ pc' = "setup"
  /\ UNCHANGED <<inputVars, loaderVars, canvasVars, sideVars,
                 cache, slideVars, imageVars, frameVars, sessionVars, captureVars,
                 audioVars, paintVars, now, failed, fault>>

\* canvas, capture stream, audio context, recorder, recorder.start(): one synchronous run
Setup ==
  /\ pc = "setup"
  /\ IF ContextMissing(host)
       THEN /\ Throw("canvas")
            /\ UNCHANGED <<audioCtx, recorder, starts, mime, recorderMime>>
       ELSE /\ audioCtx' = "running"
            /\ mime' = ChooseMime(host)
            /\ IF Unsupported(host, mime')
                 THEN /\ Throw("recorder")
                      /\ UNCHANGED <<recorder, starts, recorderMime>>
                 ELSE /\ recorderMime' = mime'
                      /\ recorder' = "recording"
                      /\ starts' = starts + 1
                      /\ pc' = "loop"
                      /\ UNCHANGED fault
  /\ UNCHANGED <<inputVars, loaderVars, canvasVars, sideVars,
                 pdfVars, cache, slideVars, imageVars, frameVars,
                 onstop, stops, stopAt, chunks, emitted, blob, audioVars, paintVars,
                 now, failed>>

\* the loop head: the slide is read and its page resolved
BeginSlide ==
  /\ pc = "loop"
  /\ slideIndex < numSlides
  /\ \E s \in Slides :
       /\ slide' = s
       /\ resolvedPdfPage' = ResolvePdfPage(s, slideIndex, pdfDocument, totalPdfPages)
  /\ pc' = "loadImage"
  /\ UNCHANGED <<inputVars, loaderVars, canvasVars, sideVars,
                 pdfVars, cache, slideIndex, imageVars, frameVars,
                 sessionVars, captureVars, audioVars, paintVars, now, failed, fault>>

\* the rejection of loadImage leaves the function
BackgroundFailureThrown ==
  /\ Throw("background")
  /\ UNCHANGED backgroundImage

\* catch {}: the rejection of loadImage is swallowed, backgroundImage stays null
BackgroundFailureCaught ==
  /\ backgroundImage' = "null"
  /\ pc' = "loadSnapshot"
  /\ UNCHANGED fault

\* try { backgroundImage = await loadImage(slide.imageUrl); } catch {}
LoadBackground ==
  /\ pc = "loadImage"
  /\ IF slide.imageUrl
       THEN \E ok \in BOOLEAN :
              IF ok
                THEN /\ backgroundImage' = "img"
                     /\ pc' = "loadSnapshot"
                     /\ UNCHANGED <<failed, fault>>
                ELSE /\ failed' = failed \cup {"background"}
                     /\ BackgroundFailureCaught
       ELSE /\ pc' = "loadSnapshot"
            /\ UNCHANGED <<backgroundImage, failed, fault>>
  /\ UNCHANGED <<inputVars, loaderVars, canvasVars, sideVars,
                 pdfVars, cache, slideVars, snapshotImage, frameVars,
                 sessionVars, captureVars, audioVars, paintVars, now>>

\* getPdfSnapshotImage: one memoized promise per clamped page
LoadSnapshot ==
  /\ pc = "loadSnapshot"
  /\ IF pdfDocument /\ resolvedPdfPage # 0
       THEN LET clamped == CacheKey(resolvedPdfPage, totalPdfPages) IN
            IF ~CacheMiss(clamped)
              THEN /\ snapshotImage' = cache[clamped]
                   /\ failed' = IF cache[clamped] = "null"
                                  THEN failed \cup {"snapshot"} ELSE failed
                   /\ UNCHANGED cache
              ELSE \E outcome \in {"img", "renderFailed", "imageFailed"} :
                     LET result == IF outcome = "img" THEN "img" ELSE "null" IN
                     /\ cache' = [cache EXCEPT ![clamped] = result]
                     /\ snapshotImage' = result
                     /\ failed' = IF result = "null"
                                    THEN failed \cup {"snapshot"} ELSE failed
       ELSE UNCHANGED <<cache, snapshotImage, failed>>
  /\ pc' = "initialPaint"
  /\ UNCHANGED <<inputVars, loaderVars, canvasVars, sideVars,
                 pdfVars, slideVars, backgroundImage, frameVars,
                 sessionVars, captureVars, audioVars, paintVars, now, fault>>

\* the initial paint, then either the audio is started or the frame loop begins
InitialPaint ==
  /\ pc = "initialPaint"
  /\ now' = now
  /\ \E throws \in BOOLEAN :
       IF throws
         THEN /\ Throw("paint")
              /\ UNCHANGED <<paintVars, frameVars, connected>>
         ELSE /\ DrawSlide("initial", <<0, 1>>)
              /\ UNCHANGED fault
              /\ IF slide.audioUrl
                   THEN \* new Audio; createMediaElementSource; source.connect(dest); play()
                        /\ connected' = connected + 1
                        /\ durationMs' = defaultDur
                        /\ pc' = "awaitPlay"
                        /\ UNCHANGED <<frames, i>>
                   ELSE /\ StartFrames(defaultDur)
                        /\ UNCHANGED connected
  /\ UNCHANGED <<inputVars, loaderVars, canvasVars, sideVars,
                 pdfVars, cache, slideVars, imageVars, sessionVars, captureVars,
                 handlers, playing, audio, playedMs, failed>>

\* the function goes on to the frame loop without waiting for the playback to end
SkipPlaybackEnd ==
  /\ handlers' = handlers
  /\ StartFrames(defaultDur)

\* await new Promise(resolve => { audio.onended = ...; audio.onerror = ... })
AwaitPlaybackEnd ==
  /\ handlers' = RegisteredHandlers
  /\ pc' = "awaitEnded"
  /\ UNCHANGED frameVars

\* await audio.play() settles; on success the ended/error handlers are set
PlaySettled ==
  /\ pc = "awaitPlay"
  /\ \E ok \in BOOLEAN :
       IF ok
         THEN /\ playing' = playing \cup {slideIndex}
              /\ audio' = "playing"
              /\ AwaitPlaybackEnd
              /\ UNCHANGED failed
         ELSE /\ audio' = "rejected"
              /\ failed' = failed \cup {"audio"}
              /\ StartFrames(defaultDur)
              /\ UNCHANGED <<playing, handlers>>
  /\ UNCHANGED <<inputVars, loaderVars, canvasVars, sideVars,
                 pdfVars, cache, slideVars, imageVars, sessionVars, captureVars,
                 connected, playedMs, paintVars, now, fault>>

\* the media element of slide k fires an event after playing for currentTime ms;
\* a handler registered for it resumes the function
AudioEvent(k, event, currentTime, duration) ==
  /\ k \in playing
  /\ playing' = playing \ {k}
  /\ IF k = slideIndex /\ pc = "awaitEnded"
       THEN /\ audio' = event
            /\ playedMs' = currentTime
            /\ now' = now + currentTime
            /\ IF event \in handlers
                 THEN StartFrames(AudioDuration(
                        PlaybackMs(currentTime, duration, defaultDur), defaultDur))
                 ELSE UNCHANGED <<frameVars, pc>>
       ELSE UNCHANGED <<audio, playedMs, now, frameVars, pc>>
  /\ UNCHANGED <<inputVars, loaderVars, canvasVars, sideVars,
                 pdfVars, cache, slideVars, imageVars, sessionVars, captureVars,
                 handlers, connected, paintVars, failed, fault>>

AudioEnded ==
  \E k \in playing, len \in AudioLengths : AudioEvent(k, "ended", len, len)

AudioError ==
  \E k \in playing, report \in ErrorReports :
    AudioEvent(k, "error", report[1], report[2])

\* one turn of the frame loop: await sleep(1000 / fps); drawSlide(..., progress)
FrameTick ==
  /\ pc = "frameSleep"
  /\ i < frames
  /\ now' = now + FrameInterval
  /\ \E throws \in BOOLEAN :
       IF throws
         THEN /\ Throw("paint")
              /\ UNCHANGED <<paintVars, i>>
         ELSE /\ DrawSlide("repaint", Progress(i, frames))
              /\ i' = i + 1
              /\ pc' = IF i + 1 < frames THEN "frameSleep" ELSE "slideDone"
              /\ UNCHANGED fault
  /\ UNCHANGED <<inputVars, loaderVars, canvasVars, sideVars,
                 pdfVars, cache, slideVars, imageVars, durationMs, frames,
                 sessionVars, captureVars, audioVars, failed>>

\* the loop iteration ends: slideIndex += 1, the iteration's variables go out of scope
EndSlide ==
  /\ pc = "slideDone"
  /\ slideIndex' = slideIndex + 1
  /\ slide' = NoSlide
  /\ resolvedPdfPage' = 0
  /\ backgroundImage' = "null"
  /\ snapshotImage' = "null"
  /\ durationMs' = 0
  /\ frames' = 0
  /\ i' = 0
  /\ handlers' = {}
  /\ audio' = "none"
  /\ playedMs' = 0
  /\ painted' = NoPaints
  /\ slideStartAt' = 0
  /\ gap' = 0
  /\ failed' = {}
  /\ pc' = "loop"
  /\ UNCHANGED <<inputVars, loaderVars, canvasVars, sideVars,
                 pdfVars, cache, sessionVars, captureVars, connected, playing, now,
                 lastPaintSlide, lastPaintAt, initials, repainted, fault>>

\* the loop is over: pdfDocument?.destroy(); the final hold starts
LoopExit ==
  /\ pc = "loop"
  /\ slideIndex >= numSlides
  /\ pc' = "finalHold"
  /\ UNCHANGED <<inputVars, loaderVars, canvasVars, sideVars,
                 pdfVars, cache, slideVars, imageVars, frameVars,
                 sessionVars, captureVars, audioVars, paintVars, now, failed, fault>>

\* the recorder is stopped with no delay after the last repaint
NoFinalHold == now' = now

\* await sleep(250)
FinalHold == now' = now + FINAL_HOLD_MS

\* await sleep(250); recorder.stop(); recorder.onstop = ...
HoldElapsed ==
  /\ pc = "finalHold"
  /\ FinalHold
  /\ recorder' = "stopping"
  /\ stops' = stops + 1
  /\ stopAt' = now'
  /\ onstop' = TRUE
  /\ pc' = "awaitStop"
  /\ UNCHANGED <<inputVars, loaderVars, canvasVars, sideVars,
                 pdfVars, cache, slideVars, imageVars, frameVars,
                 audioCtx, starts, captureVars, audioVars, paintVars, failed, fault>>

\* the recorder delivers recorded data: recorder.start() was given no timeslice,
\* so dataavailable fires once stop() was called and before the stop event
RecorderData ==
  /\ recorder = "stopping"
  /\ Len(emitted) < MaxChunks
  /\ \E size \in ChunkSizes :
       LET data == [seq |-> Len(emitted) + 1, size |-> size] IN
       /\ emitted' = Append(emitted, data)
       /\ chunks' = IF KeepChunk(size) THEN Append(chunks, data) ELSE chunks
  /\ UNCHANGED <<inputVars, loaderVars, canvasVars, sideVars,
                 pdfVars, cache, slideVars, imageVars, frameVars,
                 sessionVars, mime, recorderMime, blob, audioVars, paintVars, now,
                 failed, fault, pc>>

\* the recorder fires stop; the handler builds the blob, the context is closed
RecorderStopped ==
  /\ recorder = "stopping"
  /\ recorder' = "stopped"
  /\ IF onstop /\ pc = "awaitStop"
       THEN \* resolve(new Blob(chunks, { type: mime }))
            /\ blob' = [type |-> mime, parts |-> chunks]
            /\ audioCtx' = "closed"
            /\ pc' = "resolved"
       ELSE UNCHANGED <<blob, audioCtx, pc>>
  /\ UNCHANGED <<inputVars, loaderVars, canvasVars, sideVars,
                 pdfVars, cache, slideVars, imageVars, frameVars,
                 onstop, starts, stops, stopAt, mime, recorderMime, chunks, emitted,
                 audioVars, paintVars, now, failed, fault>>

Next ==
  \/ LoadPdf
  \/ Setup
  \/ BeginSlide
  \/ LoadBackground
  \/ LoadSnapshot
  \/ InitialPaint
  \/ PlaySettled
  \/ AudioEnded
  \/ AudioError
  \/ FrameTick
  \/ EndSlide
  \/ LoopExit
  \/ HoldElapsed
  \/ RecorderData
  \/ RecorderStopped

Spec == Init /\ [][Next]_vars

\* every timer fires, every load settles, every media and recorder event is delivered
FairSpec == Spec /\ WF_vars(Next)

\* the pacing of one slide
TimingSpec == TimingInit /\ [][Next]_vars

\* the capture session on every kind of host
HostSpec == HostInit /\ [][Next]_vars

(* ------------------ the snapshot loader and its clients ---------------- *)
\* a document is open and its cache is empty; no export call is running
LoaderInit ==
  /\ pc = "loader"
  /\ fps = 30
  /\ defaultDur = 2200
  /\ numSlides = 0
  /\ hasPdfData = TRUE
  /\ host \in {h \in Hosts : h.ctx /\ h.vp9 /\ h.vp8}
  /\ pdfDocument = TRUE
  /\ totalPdfPages \in PageCounts
  /\ args = NoArgs
  /\ Fresh

\* getPdfSnapshotImage(pdf, n, cache), up to its return: on a miss the render is
\* started and its promise stored before anything else runs
RequestSnapshot ==
  /\ pc = "loader"
  /\ issued < MaxRequests
  /\ \E n \in RequestedPages :
       LET clamped == CacheKey(n, totalPdfPages)
           page == RenderedPage(clamped, totalPdfPages)
       IN  /\ IF CacheMiss(clamped)
                THEN /\ renderStarts' = [renderStarts EXCEPT ![page] = @ + 1]
                     /\ cache' = [cache EXCEPT ![clamped] = "pending"]
                ELSE UNCHANGED <<renderStarts, cache>>
           /\ waiting' = waiting \cup
                 {[n |-> n, key |-> clamped, page |-> page, found |-> cache[clamped]]}
  /\ issued' = issued + 1
  /\ UNCHANGED <<callVars, canvasVars, sideVars, pdfVars, answers>>

\* renderPdfPageToDataUrl(...).then(...) settles: an image, or null when the page
\* cannot be rendered or its data URL cannot be loaded
SnapshotSettles ==
  /\ pc = "loader"
  /\ \E key \in CacheKeys, value \in {"img", "null"} :
       /\ cache[key] = "pending"
       /\ cache' = [cache EXCEPT ![key] = value]
  /\ UNCHANGED <<callVars, canvasVars, sideVars, pdfVars, loaderVars>>

\* a caller's await of the returned promise resumes with its value
SnapshotDelivered ==
  /\ pc = "loader"
  /\ \E w \in waiting :
       /\ cache[w.key] \in {"img", "null"}
       /\ waiting' = waiting \ {w}
       /\ answers' = answers \cup {[n |-> w.n, key |-> w.key, page |-> w.page,
                                     found |-> w.found, value |-> cache[w.key]]}
  /\ UNCHANGED <<callVars, canvasVars, sideVars, pdfVars, cache, issued, renderStarts>>

LoaderNext ==
  \/ RequestSnapshot
  \/ SnapshotSettles
  \/ SnapshotDelivered

LoaderSpec == LoaderInit /\ [][LoaderNext]_vars

(* -------------------------- the frame composer ------------------------- *)
\* A drawSlide call is the sequence of context commands it issues.  A command
\* is [op, shape, style]; a shape is a name and the numbers that place it: the
\* width of a bar as a fraction of progressWidth, the index of an arc, the
\* coordinates of a speckle as <<stream, index>> of the random values.
Whole == <<1, 1>>
Shape(name, at) == [name |-> name, at |-> at]
NoShape == Shape("none", Whole)
Cmd(op, shape, style) == [op |-> op, shape |-> shape, style |-> style]
BeginPath == Cmd("beginPath", NoShape, "none")

\* ctx.beginPath(); ctx.roundRect(...) or ctx.arc(...); then fill, stroke or clip
Figure(outline, name, paint, style) ==
  <<BeginPath, Cmd(outline, Shape(name, Whole), "none"), Cmd(paint, NoShape, style)>>

\* fillRect, fillText, drawImage, clearRect: they do not use the current path
Direct(op, name, style) == <<Cmd(op, Shape(name, Whole), style)>>

\* Math.min(Math.max(progress, 0), 1)
ClampUnit(p) == IF p[1] < 0 THEN <<0, 1>> ELSE IF p[1] > p[2] THEN Whole ELSE p

\* (slideIndex + Math.min(Math.max(progress, 0), 1)) / totalSlides
Completion(idx, total, p) ==
  <<idx * ClampUnit(p)[2] + ClampUnit(p)[1], total * ClampUnit(p)[2]>>

\* A length is a whole number of 1/10000 pixel.  The result of a division is a
\* pair <<n, d>> standing for n / d: <<n, 0>> with n > 0 is Infinity and
\* <<0, 0>> is NaN, as JavaScript computes them.
Px(k) == k * 10000
Num(n) == <<n, 1>>
NotANumber == <<0, 0>>
IsNaN(x) == x[1] = 0 /\ x[2] = 0
Finite(x) == x[2] # 0
Quot(x, y) == <<x[1] * y[2], x[2] * y[1]>>
Times(x, y) == <<x[1] * y[1], x[2] * y[2]>>
Greater(x, y) == ~IsNaN(x) /\ ~IsNaN(y) /\ x[1] * y[2] > y[1] * x[2]
MathMax(x, y) == IF IsNaN(x) \/ IsNaN(y) THEN NotANumber ELSE IF Greater(y, x) THEN y ELSE x
MathMin(x, y) == IF IsNaN(x) \/ IsNaN(y) THEN NotANumber ELSE IF Greater(x, y) THEN y ELSE x

\* the destination size <<dw, dh>> of the background image: cover scaling by
\* imgRatio = imgW / imgH against canvasRatio = width / height
BackgroundDest(size, canvas) ==
  LET imgRatio == Quot(Num(size[1]), Num(size[2]))
      canvasRatio == Quot(Num(canvas[1]), Num(canvas[2]))
      width == Num(Px(canvas[1]))
      height == Num(Px(canvas[2]))
  IN  IF Greater(imgRatio, canvasRatio)
        THEN <<Times(imgRatio, height), height>>
        ELSE <<width, Quot(width, imgRatio)>>

\* drawPdfSnapshot: aspect = image.height / Math.max(image.width, 1);
\* targetHeight = Math.min(maxHeight, width * aspect)
TargetHeight(size, width, maxHeight) ==
  MathMin(Num(maxHeight), Times(Num(width), Quot(Num(size[2]), Num(Max(size[1], 1)))))

\* drawPdfSnapshot: coverScale = Math.max(width / image.width, targetHeight /
\* image.height); the destination size is the image size times coverScale
SnapshotDest(size, width, maxHeight) ==
  LET coverScale == MathMax(Quot(Num(width), Num(size[1])),
                            Quot(TargetHeight(size, width, maxHeight), Num(size[2])))
  IN  <<Times(Num(size[1]), coverScale), Times(Num(size[2]), coverScale)>>

\* drawPdfSnapshot: clipped image, border, page label when page is given
PdfSnapshotCmds(image, size, page, width, maxHeight) ==
  LET media == Shape("media", <<Num(width), TargetHeight(size, width, maxHeight)>>) IN
  <<BeginPath, Cmd("roundRect", media, "none"), Cmd("clip", NoShape, "none"),
    Cmd("drawImage", Shape(image, SnapshotDest(size, width, maxHeight)), "none"),
    BeginPath, Cmd("roundRect", media, "none"), Cmd("stroke", NoShape, "cardStroke")>>
    \o (IF page
          THEN Figure("roundRect", "pageLabel", "fill", "rgba(15, 23, 42, 0.6)")
                 \o Direct("fillText", "pageLabel", "headingLabel")
          ELSE <<>>)

\* drawBulletList: a dot and a text for each segment
BulletListCmds(n) ==
  [j \in 1 .. 4 * n |->
     LET k == ((j - 1) \div 4) + 1 IN
     CASE (j - 1) % 4 = 0 -> BeginPath
       [] (j - 1) % 4 = 1 -> Cmd("arc", Shape("bullet", <<k, 1>>), "none")
       [] (j - 1) % 4 = 2 -> Cmd("fill", NoShape, "bulletColor")
       [] OTHER -> Cmd("fillText", Shape("segment", <<k, 1>>), "summaryText")]

\* drawPdfExcerpt: Math.max(1, Math.floor((height - padding - headerHeight) / lineHeight))
MaxLines(height) ==
  Max(1, (height - Px(EXCERPT_PADDING) - Px(EXCERPT_HEADER)) \div Px(EXCERPT_LINE))

\* drawPdfExcerpt: panel, border, label, then lines.slice(0, maxLines), each at
\* y + headerHeight + padding / 2 + idx * lineHeight; a line shape holds the
\* offset of its top from the top of the panel and the height of the panel
PdfExcerptCmds(n, height) ==
  Figure("roundRect", "excerpt", "fill", "rgba(148, 163, 184, 0.14)")
    \o Figure("roundRect", "excerpt", "stroke", "rgba(148, 163, 184, 0.35)")
    \o Direct("fillText", "excerptLabel", "headingLabel")
    \o [idx \in 1 .. Min(n, MaxLines(height)) |->
          Cmd("fillText",
              Shape("excerptLine",
                    <<Px(EXCERPT_HEADER) + Px(EXCERPT_PADDING) \div 2
                        + (idx - 1) * Px(EXCERPT_LINE), height>>),
              "summaryText")]

\* drawCodeSnippet: block, border, language chip when a language is given, lines
CodeSnippetCmds(code) ==
  Figure("roundRect", "codeBlock", "fill", "rgba(8, 13, 28, 0.92)")
    \o Figure("roundRect", "codeBlock", "stroke", "mediaBorder")
    \o (IF code = "lang"
          THEN Figure("roundRect", "languageChip", "fill", "chipGradient")
                 \o Direct("fillText", "language", "chipText")
          ELSE <<>>)
    \o Direct("fillText", "codeLines", "#e2e8f0")

\* drawTechAccent: accentCount arcs, then 80 squares at Math.random() coordinates
TechAccentCmds(r) ==
  [j \in 1 .. 3 * ACCENT_COUNT |->
     LET k == ((j - 1) \div 3) + 1 IN
     CASE (j - 1) % 3 = 0 -> BeginPath
       [] (j - 1) % 3 = 1 -> Cmd("arc", Shape("accent", <<k, 1>>), "none")
       [] OTHER -> Cmd("stroke", NoShape, "#60a5fa")]
    \o [k \in 1 .. SPECKLE_COUNT |->
          Cmd("fillRect", Shape("speckle", <<r, k>>), "#38bdf8")]

\* the progress bar: track, then fill; neither roundRect follows a beginPath
ProgressBarCmds(a) ==
  <<Cmd("roundRect", Shape("bar", Whole), "none"),
    Cmd("fill", NoShape, "progressTrack"),
    Cmd("roundRect", Shape("bar", Completion(a.slideIndex, a.totalSlides, a.progress)),
        "none"),
    Cmd("fill", NoShape, "progressFill")>>

\* hasSnapshot ? width * 0.78 : width * 0.66
CardWidth(hasSnapshot) == IF hasSnapshot THEN <<78, 100>> ELSE <<66, 100>>

\* cardWidth, cardHeight, innerWidth = cardWidth - innerPadding * 2
CardWidthPx(a) == (Px(a.canvas[1]) * CardWidth(a.snap)[1]) \div CardWidth(a.snap)[2]
CardHeight(a) == (Px(a.canvas[2]) * (IF a.snap THEN 76 ELSE 74)) \div 100
InnerWidth(a) == CardWidthPx(a) - Px(INNER_PADDING) * 2

\* contentTop - cardY = innerPadding + Math.max(headingHeight, 52) + 18, the
\* heading being one line of 58
ContentOffset == Px(INNER_PADDING) + Max(Px(HEADING_LINE), Px(52)) + Px(18)

\* the snapshot layout: textWidth, imageWidth, maxImageHeight
TextWidth(a) ==
  Max((InnerWidth(a) * 50) \div 100 - Px(GUTTER) \div 2, (InnerWidth(a) * 38) \div 100)
ImageWidth(a) == InnerWidth(a) - TextWidth(a) - Px(GUTTER)
MaxImageHeight(a) == Max(CardHeight(a) - ContentOffset - Px(INNER_PADDING), Px(120))

\* drawBulletList returns lineHeight * lines.length + 12 for each segment, the
\* segments being of one line
BulletHeight(n) == n * (Px(BULLET_LINE) + Px(12))

\* the height of the excerpt panel: in the snapshot layout what the image
\* column leaves under the bullets, at most cardHeight * 0.35 and 220; in the
\* other layouts Math.min(cardHeight * 0.26, 220)
ExcerptHeight(a) ==
  IF a.snap
    THEN Min(Max(MaxImageHeight(a) - BulletHeight(a.bullets) - Px(20), 0),
             Min((CardHeight(a) * 35) \div 100, Px(220)))
    ELSE Min((CardHeight(a) * 26) \div 100, Px(220))

\* slide.pdfExcerpt is drawn; the snapshot layout needs excerptHeight >= 80
ExcerptDrawn(a) == a.excerpt /\ (a.snap => ExcerptHeight(a) >= Px(80))

\* the layouts tried in the other order: the stacked layout whenever there is a
\* background image
StackedFirst(a) ==
  (IF a.bg
     THEN PdfSnapshotCmds("background", a.bgSize, FALSE, InnerWidth(a),
                          (CardHeight(a) * 42) \div 100)
     ELSE IF a.snap
       THEN PdfSnapshotCmds("snapshot", a.snapSize, a.page, ImageWidth(a), MaxImageHeight(a))
       ELSE Figure("roundRect", "placeholder", "fill", "rgba(51, 65, 85, 0.22)")
              \o Direct("fillText", "placeholder", "headingLabel"))
    \o BulletListCmds(a.bullets)
    \o (IF ExcerptDrawn(a) THEN PdfExcerptCmds(a.excerptLines, ExcerptHeight(a)) ELSE <<>>)

\* the body of the card: snapshot layout, image layout or placeholder layout
ContentCmds(a) ==
  (IF a.snap
     THEN PdfSnapshotCmds("snapshot", a.snapSize, a.page, ImageWidth(a), MaxImageHeight(a))
     ELSE IF a.bg
       THEN PdfSnapshotCmds("background", a.bgSize, FALSE, InnerWidth(a),
                            (CardHeight(a) * 42) \div 100)
       ELSE Figure("roundRect", "placeholder", "fill", "rgba(51, 65, 85, 0.22)")
              \o Direct("fillText", "placeholder", "headingLabel"))
    \o BulletListCmds(a.bullets)
    \o (IF ExcerptDrawn(a) THEN PdfExcerptCmds(a.excerptLines, ExcerptHeight(a)) ELSE <<>>)

\* drawSlide(ctx, slide, backgroundImage, snapshotImage, width, height, slideIndex,
\* totalSlides, progress), with r the values of Math.random() during the call
DrawSlideCmds(a, r) ==
  Direct("clearRect", "surface", "none")
    \o Direct("fillRect", "surface", "background")
    \o (IF a.bg
          THEN <<Cmd("drawImage", Shape("background", BackgroundDest(a.bgSize, a.canvas)),
                     "none")>>
          ELSE <<>>)
    \o Direct("fillRect", "surface", "vignette")
    \o Direct("fillRect", "surface", "overlay")
    \o <<BeginPath, Cmd("roundRect", Shape("card", CardWidth(a.snap)), "none"),
         Cmd("fill", NoShape, "cardFill")>>
    \o <<BeginPath, Cmd("roundRect", Shape("cardBorder", CardWidth(a.snap)), "none"),
         Cmd("stroke", NoShape, "cardStroke")>>
    \o Direct("fillText", "heading", "headingText")
    \o ContentCmds(a)
    \o (IF a.code # "none" THEN CodeSnippetCmds(a.code) ELSE <<>>)
    \o (IF ~(a.snap \/ a.bg) THEN TechAccentCmds(r) ELSE <<>>)
    \o ProgressBarCmds(a)

\* the 2D context: beginPath empties the current path, roundRect and arc add a
\* subpath to it, fill, stroke and clip apply to all of its subpaths and leave
\* it in place (save and restore do not touch it); clearRect wipes the surface
IsOutline(c) == c.op \in {"roundRect", "arc"}
UsesPath(c) == c.op \in {"fill", "stroke", "clip"}
\* drawImage returns without drawing when an argument is infinite or NaN
Paints(c) ==
  /\ c.op \notin {"beginPath", "roundRect", "arc", "clearRect"}
  /\ (c.op = "drawImage" => Finite(c.shape.at[1]) /\ Finite(c.shape.at[2]))

\* the last of the commands cmds[1 .. j] with operation op, 0 when there is none
LastOf(cmds, op, j) ==
  LET at == {k \in 1 .. j : cmds[k].op = op} IN
  IF at = {} THEN 0 ELSE CHOOSE k \in at : \A m \in at : m <= k

\* the current path after the commands cmds[1 .. j], p being the path before them
PathAfter(cmds, p, j) ==
  LET begun == LastOf(cmds, "beginPath", j)
      added == SelectSeq(SubSeq(cmds, begun + 1, j), IsOutline)
  IN  (IF begun = 0 THEN p ELSE <<>>) \o [k \in 1 .. Len(added) |-> added[k].shape]

\* the path and the surface after the commands cmds
Run(cmds, p, marks) ==
  LET n == Len(cmds)
      wiped == LastOf(cmds, "clearRect", n)
      Mark(j) == [op |-> cmds[j].op, style |-> cmds[j].style,
                  shapes |-> IF UsesPath(cmds[j])
                               THEN PathAfter(cmds, p, j) ELSE <<cmds[j].shape>>]
      PaintsAt(j) == j > wiped /\ Paints(cmds[j])
      painting == SelectSeq([j \in 1 .. n |-> j], PaintsAt)
  IN  [path |-> PathAfter(cmds, p, n),
       ink |-> (IF wiped = 0 THEN marks ELSE <<>>)
                 \o [k \in 1 .. Len(painting) |-> Mark(painting[k])]]

\* a surface and the arguments of the calls to come; no export call is running
PaintInit ==
  /\ pc = "paint"
  /\ fps = 30
  /\ defaultDur = 2200
  /\ numSlides = 0
  /\ hasPdfData = FALSE
  /\ host \in {h \in Hosts : h.ctx /\ h.vp9 /\ h.vp8}
  /\ pdfDocument = FALSE
  /\ totalPdfPages = 0
  /\ args \in PaintArgs
  /\ Fresh

\* one drawSlide call with the arguments args.  The call reads
\* themeStyle.background[0] right after clearRect: when themeStyle has no
\* background it ends there with a TypeError, the surface cleared.
PaintSlide ==
  /\ pc = "paint"
  /\ calls < MaxCalls
  /\ themeStyle' = GetThemeStyle(args.visualTheme)
  /\ threw' = (themeStyle'.background = "undefined")
  /\ \E r \in RandomStreams :
       LET out == IF threw'
                    THEN Run(Direct("clearRect", "surface", "none"), path, ink)
                    ELSE Run(DrawSlideCmds(args, r), path, ink)
       IN  /\ path' = out.path
           /\ ink' = out.ink
           /\ firstInk' = IF calls = 0 THEN out.ink ELSE firstInk
  /\ calls' = calls + 1
  /\ UNCHANGED <<args, callVars, sideVars, pdfVars, cache, loaderVars>>

PaintNext == PaintSlide

PaintSpec == PaintInit /\ [][PaintNext]_vars

\* the same surface, the arguments drawn from ImageArgs
ImageInit ==
  /\ pc = "paint"
  /\ fps = 30
  /\ defaultDur = 2200
  /\ numSlides = 0
  /\ hasPdfData = FALSE
  /\ host \in {h \in Hosts : h.ctx /\ h.vp9 /\ h.vp8}
  /\ pdfDocument = FALSE
  /\ totalPdfPages = 0
  /\ args \in ImageArgs
  /\ Fresh

ImageSpec == ImageInit /\ [][PaintNext]_vars

\* the same surface, the arguments drawn from ExcerptArgs
ExcerptInit ==
  /\ pc = "paint"
  /\ fps = 30
  /\ defaultDur = 2200
  /\ numSlides = 0
  /\ hasPdfData = FALSE
  /\ host \in {h \in Hosts : h.ctx /\ h.vp9 /\ h.vp8}
  /\ pdfDocument = FALSE
  /\ totalPdfPages = 0
  /\ args \in ExcerptArgs
  /\ Fresh

ExcerptSpec == ExcerptInit /\ [][PaintNext]_vars

\* the same surface, the arguments drawn from ThemeArgs
ThemeInit ==
  /\ pc = "paint"
  /\ fps = 30
  /\ defaultDur = 2200
  /\ numSlides = 0
  /\ hasPdfData = FALSE
  /\ host \in {h \in Hosts : h.ctx /\ h.vp9 /\ h.vp8}
  /\ pdfDocument = FALSE
  /\ totalPdfPages = 0
  /\ args \in ThemeArgs
  /\ Fresh

ThemeSpec == ThemeInit /\ [][PaintNext]_vars

(* --------------- the exporter of services/videoExporter.ts ------------- *)
\* The second exportLectureToWebM has no document and no snapshot.  Its set-up,
\* final hold and recorder handlers are the statements of the first one
\* (Setup, LoopExit, HoldElapsed, RecorderData, RecorderStopped); its loop
\* body differs.

\* audio.onended = () => { ended = true; resolve(); }: the only handler
SimpleHandlers == {"ended"}

\* Math.ceil((ended ? defaultDur : durationMs) / (1000 / fps))
SimpleFrames(isEnded, d, dflt, f) == CeilDiv((IF isEnded THEN dflt ELSE d) * f, 1000)

\* the frame loop starts, or is skipped when frames is 0
SimpleStartFrames(isEnded, d) ==
  /\ frames' = SimpleFrames(isEnded, d, defaultDur, fps)
  /\ i' = 0
  /\ pc' = IF frames' > 0 THEN "simpleFrame" ELSE "slideDone"

\* the call of the second exporter, after its option defaults
SimpleInit ==
  /\ pc = "setup"
  /\ host \in UsualHosts
  /\ \E o \in OptionChoices :
       /\ fps = o[1]
       /\ defaultDur = o[2]
  /\ numSlides \in 0 .. MaxSlides
  /\ hasPdfData = FALSE
  /\ pdfDocument = FALSE
  /\ totalPdfPages = 0
  /\ args = NoArgs
  /\ Fresh

\* for (const slide of draft.slides)
SimpleBeginSlide ==
  /\ pc = "loop"
  /\ slideIndex < numSlides
  /\ \E s \in {t \in Slides : t.pdfPage = 0} : slide' = s
  /\ pc' = "simpleImage"
  /\ UNCHANGED <<inputVars, loaderVars, canvasVars, sideVars,
                 pdfVars, cache, slideIndex, resolvedPdfPage, imageVars, frameVars,
                 sessionVars, captureVars, audioVars, paintVars, now, failed, fault>>

\* try { image = await loadImage(slide.imageUrl); } catch {}
SimpleLoadImage ==
  /\ pc = "simpleImage"
  /\ IF slide.imageUrl
       THEN \E ok \in BOOLEAN :
              /\ backgroundImage' = IF ok THEN "img" ELSE "null"
              /\ failed' = IF ok THEN failed ELSE failed \cup {"background"}
       ELSE UNCHANGED <<backgroundImage, failed>>
  /\ pc' = "simplePaint"
  /\ UNCHANGED <<inputVars, loaderVars, canvasVars, sideVars,
                 pdfVars, cache, slideVars, snapshotImage, frameVars,
                 sessionVars, captureVars, audioVars, paintVars, now, fault>>

\* drawSlide; durationMs = defaultDur; ended = false; with an audioUrl the
\* element is created, connected and started
SimplePaint ==
  /\ pc = "simplePaint"
  /\ now' = now
  /\ DrawSlide("initial", <<0, 1>>)
  /\ durationMs' = defaultDur
  /\ ended' = FALSE
  /\ IF slide.audioUrl
       THEN /\ connected' = connected + 1
            /\ pc' = "simplePlay"
            /\ UNCHANGED <<frames, i>>
       ELSE /\ SimpleStartFrames(FALSE, defaultDur)
            /\ UNCHANGED connected
  /\ UNCHANGED <<inputVars, loaderVars, canvasVars, besideSimple,
                 pdfVars, cache, slideVars, imageVars, sessionVars, captureVars,
                 handlers, playing, audio, playedMs, failed, fault>>

\* await audio.play() settles: on success the promise with audio.onended is
\* awaited, on rejection catch { ended = true }
SimplePlaySettled ==
  /\ pc = "simplePlay"
  /\ \E ok \in BOOLEAN :
       IF ok
         THEN /\ playing' = playing \cup {slideIndex}
              /\ audio' = "playing"
              /\ handlers' = SimpleHandlers
              /\ pc' = "simpleEnded"
              /\ UNCHANGED <<failed, ended, frames, i>>
         ELSE /\ audio' = "rejected"
              /\ failed' = failed \cup {"audio"}
              /\ ended' = TRUE
              /\ SimpleStartFrames(TRUE, durationMs)
              /\ UNCHANGED <<playing, handlers>>
  /\ UNCHANGED <<inputVars, loaderVars, canvasVars, besideSimple,
                 pdfVars, cache, slideVars, imageVars, durationMs, sessionVars,
                 captureVars, connected, playedMs, paintVars, now, fault>>

\* the media element of slide k fires an event after playing for currentTime
\* ms; the ended handler sets ended, resolves the promise, and the function
\* computes durationMs = Math.max(defaultDur, Math.floor(audio.duration * 1000))
SimpleAudioEvent(k, event, currentTime, duration) ==
  /\ k \in playing
  /\ playing' = playing \ {k}
  /\ IF k = slideIndex /\ pc = "simpleEnded"
       THEN /\ audio' = event
            /\ playedMs' = currentTime
            /\ now' = now + currentTime
            /\ IF event \in handlers
                 THEN /\ ended' = TRUE
                      /\ durationMs' = IF duration = NaN THEN NaN
                                        ELSE Max(defaultDur, duration)
                      /\ SimpleStartFrames(TRUE, durationMs')
                 ELSE UNCHANGED <<ended, frameVars, pc>>
       ELSE UNCHANGED <<audio, playedMs, now, ended, frameVars, pc>>
  /\ UNCHANGED <<inputVars, loaderVars, canvasVars, besideSimple,
                 pdfVars, cache, slideVars, imageVars, sessionVars, captureVars,
                 handlers, connected, paintVars, failed, fault>>

SimpleAudioEnded ==
  \E k \in playing, len \in AudioLengths : SimpleAudioEvent(k, "ended", len, len)

SimpleAudioError ==
  \E k \in playing, report \in ErrorReports :
    SimpleAudioEvent(k, "error", report[1], report[2])

\* one turn of the frame loop: await sleep(1000 / fps); drawSlide(...)
SimpleFrameTick ==
  /\ pc = "simpleFrame"
  /\ i < frames
  /\ now' = now + FrameInterval
  /\ DrawSlide("repaint", <<0, 1>>)
  /\ i' = i + 1
  /\ pc' = IF i + 1 < frames THEN "simpleFrame" ELSE "slideDone"
  /\ UNCHANGED <<inputVars, loaderVars, canvasVars, sideVars,
                 pdfVars, cache, slideVars, imageVars, durationMs, frames,
                 sessionVars, captureVars, audioVars, failed, fault>>

SimpleNext ==
  \/ Setup
  \/ SimpleBeginSlide
  \/ SimpleLoadImage
  \/ SimplePaint
  \/ SimplePlaySettled
  \/ SimpleAudioEnded
  \/ SimpleAudioError
  \/ SimpleFrameTick
  \/ EndSlide
  \/ LoopExit
  \/ HoldElapsed
  \/ RecorderData
  \/ RecorderStopped

SimpleSpec == SimpleInit /\ [][SimpleNext]_vars

\* every timer fires, every load settles, every media and recorder event is delivered
SimpleFairSpec == SimpleSpec /\ WF_vars(SimpleNext)

(* --------------------------- the Pomodoro timer ------------------------ *)
\* PomodoroTimer.tsx.  A handler runs with the renders and effects it causes:
\* the state after an action is the state React settles in.

\* the state of the component as a record
TimerState(p, r, e, rem, cf) ==
  [phase |-> p, running |-> r, endAt |-> e, remaining |-> rem, completedFocus |-> cf]

\* JSON.stringify({ phase, endAt, running, timeSaved }) under STORAGE_KEY, and
\* what JSON.parse gives back; timeSaved is never read
WithoutEndAt(p, e, r) == [present |-> TRUE, phase |-> p, endAt |-> NoEnd, running |-> r]
Persist(p, e, r) == [present |-> TRUE, phase |-> p, endAt |-> e, running |-> r]

\* Math.max(0, Math.floor((target - Date.now()) / 1000))
SecondsUntil(target) == Max(0, (target - clock) \div 1000)

\* the phase the completion effect moves to
NextPhase(p, cf) ==
  IF p = "focus" THEN (IF (cf + 1) % 4 = 0 THEN "long" ELSE "short") ELSE "focus"

\* the effects that set state: the tick effect arms endAt when the timer runs
\* without one, the completion effect moves on when a stopped timer shows 0
Effects(s) ==
  LET armed == IF s.running /\ ~Truthy(s.endAt)
                 THEN [s EXCEPT !.endAt = clock + durations[s.phase] * 1000]
                 ELSE s
  IN  IF armed.running \/ armed.remaining > 0
        THEN armed
        ELSE LET next == NextPhase(armed.phase, armed.completedFocus)
             IN  TimerState(next, FALSE, NoEnd, durations[next],
                            IF armed.phase = "focus" THEN armed.completedFocus + 1
                                                     ELSE armed.completedFocus)

\* the state settles and the persist effect writes it
Commit(s, event) ==
  LET t == Effects(s)
  IN  /\ phase' = t.phase
      /\ running' = t.running
      /\ endAt' = t.endAt
      /\ remaining' = t.remaining
      /\ completedFocus' = t.completedFocus
      /\ stored' = Persist(t.phase, t.endAt, t.running)
      /\ lastEvent' = event

Current == TimerState(phase, running, endAt, remaining, completedFocus)

\* the useState initialisers
InitialState ==
  LET initPhase == IF stored.present THEN stored.phase ELSE "focus"
      initEndAt == IF stored.present /\ Truthy(stored.endAt) /\ stored.endAt > clock
                     THEN stored.endAt ELSE NoEnd
  IN  TimerState(initPhase, Truthy(initEndAt), initEndAt,
                 IF Truthy(initEndAt) THEN SecondsUntil(initEndAt)
                                      ELSE durations[initPhase], 0)

\* the restore effect of the mount
Restore(s) ==
  IF ~stored.present THEN s
  ELSE IF Truthy(stored.endAt) /\ stored.endAt > clock
         THEN [s EXCEPT !.phase = stored.phase, !.endAt = stored.endAt,
                        !.running = TRUE, !.remaining = SecondsUntil(stored.endAt)]
         ELSE [s EXCEPT !.phase = stored.phase, !.endAt = NoEnd,
                        !.running = FALSE, !.remaining = durations[stored.phase]]

\* the timer is the only thing running
TimerInit ==
  /\ pc = "timer"
  /\ fps = 30
  /\ defaultDur = 2200
  /\ numSlides = 0
  /\ hasPdfData = FALSE
  /\ host \in {h \in Hosts : h.ctx /\ h.vp9 /\ h.vp8}
  /\ pdfDocument = FALSE
  /\ totalPdfPages = 0
  /\ args = NoArgs
  /\ Fresh

TimerRest == UNCHANGED <<callVars, canvasVars, pdfVars, cache, loaderVars, besideTimer>>

\* the component mounts: initial state, then the mount effects
Mount ==
  /\ pc = "timer"
  /\ ~mounted
  /\ mounted' = TRUE
  /\ Commit(Restore(InitialState), "mount")
  /\ UNCHANGED <<clock, elapses>>
  /\ TimerRest

\* the component unmounts: the cleanup persists the state it had
Unmount ==
  /\ pc = "timer"
  /\ mounted
  /\ mounted' = FALSE
  /\ stored' = Persist(phase, endAt, running)
  /\ lastEvent' = "unmount"
  /\ UNCHANGED <<phase, running, endAt, remaining, completedFocus, clock, elapses>>
  /\ TimerRest

\* the Start/Pause button or the space key
StartPause ==
  /\ pc = "timer"
  /\ mounted
  /\ Commit(IF ~running
              THEN [Current EXCEPT !.endAt = clock + remaining * 1000, !.running = TRUE]
              ELSE [Current EXCEPT !.running = FALSE, !.endAt = NoEnd],
            "startPause")
  /\ UNCHANGED <<mounted, clock, elapses>>
  /\ TimerRest

\* the Reset button or the R key: setPhaseAndReset(phase)
Reset ==
  /\ pc = "timer"
  /\ mounted
  /\ Commit(TimerState(phase, FALSE, NoEnd, durations[phase], completedFocus), "reset")
  /\ UNCHANGED <<mounted, clock, elapses>>
  /\ TimerRest

\* the Skip button or the S key: setRemaining(0)
Skip ==
  /\ pc = "timer"
  /\ mounted
  /\ completedFocus < MaxCompleted
  /\ Commit([Current EXCEPT !.remaining = 0], "skip")
  /\ UNCHANGED <<mounted, clock, elapses>>
  /\ TimerRest

\* one animation frame of the tick effect
Tick ==
  /\ pc = "timer"
  /\ mounted
  /\ running
  /\ completedFocus < MaxCompleted
  /\ LET eta == SecondsUntil(IF Truthy(endAt) THEN endAt ELSE clock)
     IN  Commit([Current EXCEPT !.remaining = eta,
                                !.running = IF eta <= 0 THEN FALSE ELSE running],
                "tick")
  /\ UNCHANGED <<mounted, clock, elapses>>
  /\ TimerRest

\* the one-second interval or a visibilitychange event
SyncFromEnd ==
  /\ pc = "timer"
  /\ mounted
  /\ completedFocus < MaxCompleted
  /\ Commit(IF running /\ Truthy(endAt)
              THEN [Current EXCEPT !.remaining = SecondsUntil(endAt)]
              ELSE IF stored.present /\ stored.running /\ Truthy(stored.endAt)
                     THEN [Current EXCEPT !.phase = stored.phase,
                                          !.endAt = stored.endAt,
                                          !.running = TRUE,
                                          !.remaining = SecondsUntil(stored.endAt)]
                     ELSE Current,
            "syncFromEnd")
  /\ UNCHANGED <<mounted, clock, elapses>>
  /\ TimerRest

\* time passes, with the component mounted or not
Elapse ==
  /\ pc = "timer"
  /\ elapses < MaxElapses
  /\ \E d \in Elapses : clock' = clock + d
  /\ elapses' = elapses + 1
  /\ lastEvent' = "elapse"
  /\ UNCHANGED <<mounted, phase, running, endAt, remaining, completedFocus, stored>>
  /\ TimerRest

TimerNext ==
  \/ Mount
  \/ Unmount
  \/ StartPause
  \/ Reset
  \/ Skip
  \/ Tick
  \/ SyncFromEnd
  \/ Elapse

TimerSpec == TimerInit /\ [][TimerNext]_vars

(* ------------------------- the wrapping routines ----------------------- *)
\* A string is a sequence of glyphs: a narrow letter, a wide letter and a
\* white-space character.  ctx.measureText(s).width is the sum of the advances
\* of its glyphs, the white space included.
Glyphs == {"i", "m", " "}
Advance(g) == CASE g = "i" -> 1 [] g = "m" -> 3 [] OTHER -> 1
Texts == UNION {[1 .. n -> Glyphs] : n \in 0 .. MaxLen}
WidthChoices == {3, 4, 6}

RECURSIVE Measure(_)
Measure(s) == IF s = <<>> THEN 0 ELSE Advance(Head(s)) + Measure(Tail(s))

\* String.prototype.trimEnd, trimStart, trim
RECURSIVE TrimEnd(_)
TrimEnd(s) ==
  IF s # <<>> /\ s[Len(s)] = " " THEN TrimEnd(SubSeq(s, 1, Len(s) - 1)) ELSE s
RECURSIVE TrimStart(_)
TrimStart(s) == IF s # <<>> /\ Head(s) = " " THEN TrimStart(Tail(s)) ELSE s
Trim(s) == TrimEnd(TrimStart(s))

\* the index of the first white-space character of s, Len(s) + 1 without one
FirstSpace(s) ==
  LET at == {k \in 1 .. Len(s) : s[k] = " "} IN
  IF at = {} THEN Len(s) + 1 ELSE CHOOSE k \in at : \A m \in at : k <= m

\* s.split(' ')
RECURSIVE Split(_)
Split(s) ==
  IF FirstSpace(s) > Len(s) THEN <<s>>
  ELSE <<SubSeq(s, 1, FirstSpace(s) - 1)>> \o Split(SubSeq(s, FirstSpace(s) + 1, Len(s)))

\* s.split(/\s+/)
RECURSIVE SplitRuns(_)
SplitRuns(s) ==
  IF FirstSpace(s) > Len(s) THEN <<s>>
  ELSE <<SubSeq(s, 1, FirstSpace(s) - 1)>>
         \o SplitRuns(TrimStart(SubSeq(s, FirstSpace(s), Len(s))))

\* s.replace(/\s+/g, ' ')
RECURSIVE Collapse(_)
Collapse(s) ==
  IF s = <<>> THEN <<>>
  ELSE IF Head(s) = " " THEN <<" ">> \o Collapse(TrimStart(s))
  ELSE <<Head(s)>> \o Collapse(Tail(s))

\* wrapText, the loop from word n on: line is the line being filled, out the
\* strings already handed to fillText
RECURSIVE WrapFrom(_, _, _, _, _)
WrapFrom(words, n, line, out, width) ==
  IF n > Len(words) THEN Append(out, TrimEnd(line))
  ELSE LET testLine == line \o words[n] \o <<" ">> IN
       IF Measure(testLine) > width /\ n > 1
         THEN WrapFrom(words, n + 1, words[n] \o <<" ">>, Append(out, line), width)
         ELSE WrapFrom(words, n + 1, testLine, out, width)

\* wrapText without its last fillText
WithoutLastLine(t, width) ==
  IF Trim(t) = <<>> THEN <<>>
  ELSE SubSeq(WrapFrom(SplitRuns(Trim(t)), 1, <<>>, <<>>, width), 1,
              Len(WrapFrom(SplitRuns(Trim(t)), 1, <<>>, <<>>, width)) - 1)

\* wrapText(ctx, text, x, y, maxWidth, lineHeight): the strings it draws
WrapText(t, width) ==
  IF Trim(t) = <<>> THEN <<>> ELSE WrapFrom(SplitRuns(Trim(t)), 1, <<>>, <<>>, width)

\* drawBulletList, words.forEach of one item
RECURSIVE BulletFrom(_, _, _, _, _)
BulletFrom(words, n, currentLine, out, width) ==
  IF n > Len(words)
    THEN IF currentLine # <<>> THEN Append(out, currentLine) ELSE out
  ELSE LET testLine == IF currentLine # <<>>
                         THEN currentLine \o <<" ">> \o words[n] ELSE words[n]
       IN  IF Measure(testLine) > width /\ currentLine # <<>>
             THEN BulletFrom(words, n + 1, words[n], Append(out, currentLine), width)
             ELSE BulletFrom(words, n + 1, testLine, out, width)

\* the item on one line, whatever its width
OneLine(item, width) == IF Trim(item) = <<>> THEN <<>> ELSE <<Trim(item)>>

\* drawBulletList for one item: the lines it draws
BulletLines(item, width) ==
  IF Trim(item) = <<>> THEN <<>> ELSE BulletFrom(SplitRuns(Trim(item)), 1, <<>>, <<>>, width)

\* drawPdfExcerpt, words.forEach
RECURSIVE ExcerptFrom(_, _, _, _, _)
ExcerptFrom(words, n, current, out, width) ==
  IF n > Len(words)
    THEN IF current # <<>> THEN Append(out, current) ELSE out
  ELSE LET test == IF current # <<>> THEN current \o <<" ">> \o words[n] ELSE words[n]
       IN  IF Measure(test) > width
             THEN IF current # <<>>
                    THEN ExcerptFrom(words, n + 1, words[n], Append(out, current), width)
                    ELSE ExcerptFrom(words, n + 1, <<>>, Append(out, test), width)
             ELSE ExcerptFrom(words, n + 1, test, out, width)

\* drawPdfExcerpt: the lines it builds for a panel of the given width
ExcerptLines(excerpt, width) ==
  IF Trim(excerpt) = <<>> THEN <<>>
  ELSE ExcerptFrom(Split(Trim(Collapse(excerpt))), 1, <<>>, <<>>, width - EXCERPT_PADDING * 2)

\* a text and a width; no export call is running
WrapInit ==
  /\ pc = "wrap"
  /\ fps = 30
  /\ defaultDur = 2200
  /\ numSlides = 0
  /\ hasPdfData = FALSE
  /\ host \in {h \in Hosts : h.ctx /\ h.vp9 /\ h.vp8}
  /\ pdfDocument = FALSE
  /\ totalPdfPages = 0
  /\ args = NoArgs
  /\ Quiet
  /\ ended = FALSE
  /\ NoTimer
  /\ text \in Texts
  /\ maxWidth \in WidthChoices
  /\ lines = <<>>
  /\ routine = "none"

\* the heading: wrapText(ctx, heading, ..., innerWidth, 58)
WrapHeading ==
  /\ pc = "wrap"
  /\ lines' = WrapText(text, maxWidth)
  /\ routine' = "wrapText"
  /\ UNCHANGED <<text, maxWidth, callVars, canvasVars, pdfVars, cache, loaderVars,
                 besideWrap>>

\* one summary segment: drawBulletList(ctx, [text], ..., maxWidth, 40, ...)
WrapBullet ==
  /\ pc = "wrap"
  /\ lines' = BulletLines(text, maxWidth)
  /\ routine' = "drawBulletList"
  /\ UNCHANGED <<text, maxWidth, callVars, canvasVars, pdfVars, cache, loaderVars,
                 besideWrap>>

\* the excerpt in a panel whose width leaves maxWidth between the paddings
WrapExcerpt ==
  /\ pc = "wrap"
  /\ lines' = ExcerptLines(text, maxWidth + EXCERPT_PADDING * 2)
  /\ routine' = "drawPdfExcerpt"
  /\ UNCHANGED <<text, maxWidth, callVars, canvasVars, pdfVars, cache, loaderVars,
                 besideWrap>>

WrapNext == WrapHeading \/ WrapBullet \/ WrapExcerpt

WrapSpec == WrapInit /\ [][WrapNext]_vars

(* ------------------------------ claims -------------------------------- *)
Settled == pc \in {"resolved", "rejected"}

\* C1: a slide whose narration plays to completion in A ms is on screen, from
\* its initial paint to its last repaint, for max(A + tail, defaultSlideDurationMs)
\* (rounded up to whole frames): the frame pacing adds no second duration.
C1_OnScreenTime ==
  (pc = "slideDone" /\ audio = "ended") =>
    LET onScreen == lastPaintAt - slideStartAt
        expected == Max(playedMs + AUDIO_TAIL_MS, defaultDur)
    IN  onScreen >= expected /\ onScreen < expected + FrameInterval

\* C2: between the initial paint of a slide and its last repaint no two
\* consecutive paints are more than one frame interval apart.
C2_SteadyFrames == gap <= FrameInterval

\* C3: on every exit path after the audio context was created, the recorder
\* ends up stopped and the audio context closed.
C3_TornDown ==
  (Settled /\ audioCtx # "none") =>
    (audioCtx = "closed" /\ recorder \in {"none", "stopped"})

\* C4: when the narration audio fails (play() rejects, or an error event fires
\* after the playback started) the frame-pacing duration is exactly
\* defaultSlideDurationMs.
C4_FailureFallsBack ==
  (pc \in {"frameSleep", "slideDone"} /\ audio \in {"rejected", "error"}) =>
    durationMs = defaultDur

\* C5: at most one narration source is connected to the stream destination.
C5_OneSource == connected <= 1

\* C6: with a document attached, a slide without a valid page number gets a
\* page no earlier slide used whenever such a page exists.
C6_PrefersUnusedPage ==
  (pc = "loadSnapshot" /\ pdfDocument /\ slide.pdfPage = 0
     /\ (1 .. totalPdfPages) \ UsedPages # {}) =>
    Clamp(resolvedPdfPage, totalPdfPages) \notin UsedPages

\* C7: every call settles, given that every timer fires, every load settles and
\* every media and recorder event is delivered: whenever an audio element can
\* fire ended/error, or the recorder can fire stop, the handler that resumes
\* the function is registered.
EventsHaveHandlers ==
  /\ (playing # {} =>
        (playing = {slideIndex} /\ pc = "awaitEnded" /\ handlers = {"ended", "error"}))
  /\ (recorder = "stopping" => (onstop /\ pc = "awaitStop"))
C7_Settles == [](EventsHaveHandlers) /\ <>Settled
C7_Witness == pc = "resolved" /\ connected > 0 /\ numSlides = MaxSlides

\* C8: per-resource failures (document, page, snapshot image, background image,
\* audio start) never reject the call; every slide gets its initial paint and
\* at least one repaint, in order, with the failed resource passed as null.
ResourceFailureIsNull ==
  painted.initial =>
    /\ ("background" \in failed => painted.bg = "null")
    /\ ("snapshot" \in failed => painted.snap = "null")
    /\ ((hasPdfData /\ ~pdfDocument) => painted.snap = "null")
C8_DegradesNotAborts ==
  /\ (pc = "rejected" => fault \in {"canvas", "recorder", "paint"})
  /\ ResourceFailureIsNull
  /\ (pc = "slideDone" =>
        (painted.initial /\ painted.repaints >= 1 /\ lastPaintSlide = slideIndex))
  /\ (pc \in {"loop", "finalHold", "awaitStop", "resolved"} =>
        (initials = slideIndex /\ repainted = slideIndex
           /\ lastPaintSlide = slideIndex - 1))
  /\ (pc = "resolved" => slideIndex = numSlides)
C8_Witness ==
  /\ pc = "slideDone"
  /\ failed = {"background", "snapshot", "audio"}
  /\ slideIndex = MaxSlides - 1

\* C9: the recorder is started once, before the first paint, and stopped once,
\* after the last repaint of the last slide and the final hold; nothing is
\* painted after stop().
C9_RecorderBracketsPaints ==
  /\ starts <= 1
  /\ stops <= 1
  /\ (initials >= 1 => starts = 1)
  /\ (stops = 0 /\ starts = 1 => recorder = "recording")
  /\ (stops = 1 =>
        /\ starts = 1
        /\ recorder \in {"stopping", "stopped"}
        /\ initials = numSlides
        /\ repainted = numSlides
        /\ painted = NoPaints
        /\ (numSlides > 0 => lastPaintSlide = numSlides - 1)
        /\ stopAt >= lastPaintAt + FINAL_HOLD_MS)
  /\ (pc = "resolved" => stops = 1)
C9_Witness == pc = "resolved" /\ numSlides = MaxSlides /\ stops = 1

\* C10: slides are processed in array order and never overlap: every paint is
\* for the current slide, each slide gets one initial paint before its
\* repaints, the next slide begins only after all repaints of the current one,
\* and at most one slide's audio plays at any time.
SlidesInOrder ==
  /\ slideIndex <= numSlides
  /\ lastPaintSlide = (IF painted.initial THEN slideIndex ELSE slideIndex - 1)
  /\ initials = slideIndex + (IF painted.initial THEN 1 ELSE 0)
  /\ repainted = slideIndex + (IF painted.repaints > 0 THEN 1 ELSE 0)
  /\ (painted.repaints > 0 => painted.initial)
  /\ playing \subseteq {slideIndex}
  /\ (pc \in {"loop", "loadImage", "loadSnapshot", "initialPaint"} =>
        (painted = NoPaints /\ playing = {}))
NextSlideAfterLastRepaint ==
  slideIndex' # slideIndex =>
    /\ slideIndex' = slideIndex + 1
    /\ pc = "slideDone"
    /\ frames >= 1
    /\ painted.repaints = frames
    /\ playing = {}
C10_StrictOrder == [](SlidesInOrder) /\ [][NextSlideAfterLastRepaint]_vars
C10_Witness == pc = "awaitEnded" /\ slideIndex = MaxSlides - 1 /\ connected = MaxSlides

\* C11: a slide without narration is paced for exactly defaultSlideDurationMs:
\* it gets exactly ceil(defaultSlideDurationMs / (1000 / fps)) repaints, each one
\* frame interval after the paint before it (500 ms at 10 fps: 5 repaints,
\* 100 ms apart).
SilentSlide == pc \in {"frameSleep", "slideDone"} /\ ~slide.audioUrl
ProgressInRange ==
  /\ painted.progress[2] > 0
  /\ painted.progress[1] >= 0
  /\ painted.progress[1] <= painted.progress[2]
  /\ (pc = "slideDone" => painted.progress[1] = painted.progress[2])
ProgressNeverDecreases ==
  painted'.repaints = painted.repaints + 1 =>
    painted'.progress[1] * painted.progress[2]
      >= painted.progress[1] * painted'.progress[2]
C12_ProgressRises == [](ProgressInRange) /\ [][ProgressNeverDecreases]_vars
C12_Witness ==
  /\ pc = "slideDone"
  /\ frames = 1
  /\ painted.repaints = 1
  /\ painted.progress = <<1, 1>>

\* C13 (as stated): when the narration plays to its natural end the slide
\* duration is max(defaultSlideDurationMs, measured playback time + tail).
NarrationEnded == pc \in {"frameSleep", "slideDone"} /\ audio = "ended"
C13_MeasuredPlusTail ==
  NarrationEnded => durationMs = Max(defaultDur, playedMs + AUDIO_TAIL_MS)

\* C13 (amended): when the narration plays to its natural end the slide
\* duration is decided after the playback has completed and before the first
\* repaint; it is max(defaultSlideDurationMs, measured playback time + tail)
\* when the measured time is at least 1 ms, defaultSlideDurationMs + tail when
\* the element reports no playback time and no duration, and never shorter
\* than defaultSlideDurationMs.
DecidedAfterPlayback ==
  /\ (pc \in {"awaitPlay", "awaitEnded"} => (frames = 0 /\ painted.repaints = 0))
  /\ (NarrationEnded => (slideIndex \notin playing /\ frames = Frames(durationMs, fps)))
  /\ (painted.repaints > 0 => frames >= painted.repaints)
C13_AfterPlayback ==
  /\ DecidedAfterPlayback
  /\ (NarrationEnded =>
        /\ durationMs >= defaultDur
        /\ (playedMs >= 1 => durationMs = Max(defaultDur, playedMs + AUDIO_TAIL_MS))
        /\ (playedMs = 0 => durationMs = defaultDur + AUDIO_TAIL_MS))
C13_Witness ==
  /\ NarrationEnded
  /\ pc = "slideDone"
  /\ playedMs = 400
  /\ durationMs = 680

\* C14: a snapshot request for any integer n, n <= 0 and n > pageCount included,
\* uses the cache entry and the page of clamp(n, 1, pageCount) and resolves to
\* that entry's result.
ClampedPage(n) ==
  IF n < 1 THEN 1 ELSE IF n > totalPdfPages THEN totalPdfPages ELSE n
C14_ClampedRequest ==
  /\ \A w \in waiting : w.key = ClampedPage(w.n) /\ w.page = ClampedPage(w.n)
  /\ \A a \in answers :
       /\ a.key = ClampedPage(a.n)
       /\ a.page = ClampedPage(a.n)
       /\ a.value = cache[ClampedPage(a.n)]
  /\ \A k \in CacheKeys : k \notin 1 .. totalPdfPages => cache[k] = "absent"
C14_Witness ==
  \E a, b, c \in answers :
    /\ a.n <= 0
    /\ b.n = 1
    /\ a.value = "img"
    /\ b.value = "img"
    /\ c.n > totalPdfPages
    /\ c.key = totalPdfPages

\* C15: whatever the order and the overlap of the snapshot requests, the
\* rasterization of a page is started at most once, and all requests for the
\* page receive the same result; a request made while the render is in flight
\* or after it failed starts no second render.
C15_OneRenderPerPage ==
  /\ \A p \in 1 .. MaxPages :
       renderStarts[p] = (IF cache[p] = "absent" THEN 0 ELSE 1)
  /\ \A a, b \in answers : a.page = b.page => a.value = b.value
  /\ \A w \in waiting : cache[w.key] # "absent"
C15_Witness ==
  \E a, b \in answers :
    /\ a.page = b.page
    /\ a.found = "pending"
    /\ b.found = "null"
    /\ a.value = "null"
    /\ b.value = "null"
    /\ renderStarts[a.page] = 1

\* C16: on a host without a 2D drawing context, or without support for either
\* codec, the call can only reject: no slide is painted, no recording is
\* started, no blob is returned.
CannotCapture == ~host.ctx \/ ~(host.vp9 \/ host.vp8)
C16_RejectsBeforeCapture ==
  CannotCapture =>
    /\ pc \in {"loadPdf", "setup", "rejected"}
    /\ (pc = "rejected" => fault \in {"canvas", "recorder"})
    /\ initials = 0
    /\ painted = NoPaints
    /\ lastPaintSlide = 0 - 1
    /\ starts = 0
    /\ recorder = "none"
    /\ blob = NoBlob
C16_Witness ==
  /\ pc = "rejected"
  /\ fault = "recorder"
  /\ host.ctx
  /\ ~host.vp9
  /\ ~host.vp8

\* C17: the container/codec string is the vp9 one exactly when the host reports
\* vp9 supported and the vp8 one otherwise; the recorder is configured with it
\* and the type of the returned blob equals it.
C17_MimeFollowsHost ==
  /\ mime \in {"none", VP9, VP8}
  /\ (mime # "none" => (mime = VP9 <=> host.vp9))
  /\ (recorder # "none" => (mime # "none" /\ recorderMime = mime))
  /\ (pc = "resolved" => blob.type = mime)
  /\ (pc # "resolved" => blob = NoBlob)
C17_Witness ==
  /\ pc = "resolved"
  /\ ~host.vp9
  /\ host.vp8
  /\ recorderMime = VP8
  /\ blob.type = VP8

\* C18: the returned blob is made of exactly the non-empty chunks the recorder
\* emitted up to its stop event, in the order of emission; chunks without data
\* or of zero length are never added; none is dropped, duplicated or reordered,
\* the chunks emitted after stop() was called included.
NonEmpty(data) == data.size >= 1
C18_BlobHoldsEmittedData ==
  /\ chunks = SelectSeq(emitted, NonEmpty)
  /\ \A k \in 1 .. Len(emitted) : emitted[k].seq = k
  /\ (pc = "resolved" => blob.parts = SelectSeq(emitted, NonEmpty))
  /\ (emitted # <<>> => stops = 1)
C18_Witness ==
  /\ pc = "resolved"
  /\ Len(emitted) = 2
  /\ emitted[1].size = 0
  /\ Len(blob.parts) = 1
  /\ blob.parts[1].seq = 2

\* C19: after every paint the progress-fill colour covers exactly the fraction
\* (slideIndex + clamp(progress, 0, 1)) / totalSlides of the track and nothing
\* else, and the track colour was applied to the track: the fill colour is
\* applied neither to the whole track nor to a shape an earlier step left in
\* the current path.
ExpectedFill ==
  LET p == args.progress
      c == IF p[1] <= 0 THEN <<0, 1>> ELSE IF p[1] >= p[2] THEN <<1, 1>> ELSE p
  IN  <<args.slideIndex * c[2] + c[1], args.totalSlides * c[2]>>
C19_FillCoversFraction ==
  calls > 0 =>
    /\ \E k \in 1 .. Len(ink) : ink[k].style = "progressFill"
    /\ \A k \in 1 .. Len(ink) :
         /\ (ink[k].style = "progressTrack" =>
               ink[k].shapes = <<Shape("bar", Whole)>>)
         /\ (ink[k].style = "progressFill" =>
               /\ ink[k].op = "fill"
               /\ Len(ink[k].shapes) = 1
               /\ ink[k].shapes[1].name = "bar"
               /\ ink[k].shapes[1].at[1] * ExpectedFill[2]
                    = ink[k].shapes[1].at[2] * ExpectedFill[1])

\* C20: two drawSlide calls with the same arguments paint the same marks with
\* the same coordinates, in the same order, whatever the slide.
C20_SamePaintTwice == calls >= 2 => ink = firstInk

\* C21: an image handle whose width or height is zero is treated as absent:
\* no drawImage is issued for it, and when no other image is present the
\* placeholder panel is painted.
ZeroSize(size) == size[1] = 0 \/ size[2] = 0
Issued(op, name) ==
  \E k \in 1 .. Len(DrawSlideCmds(args, 1)) :
    /\ DrawSlideCmds(args, 1)[k].op = op
    /\ DrawSlideCmds(args, 1)[k].shape.name = name
Painted(name) ==
  \E k \in 1 .. Len(ink) : \E j \in 1 .. Len(ink[k].shapes) : ink[k].shapes[j].name = name
C21_ZeroSizeIsAbsent ==
  calls > 0 =>
    /\ (args.bg /\ ZeroSize(args.bgSize) => ~Issued("drawImage", "background"))
    /\ (args.snap /\ ZeroSize(args.snapSize) => ~Issued("drawImage", "snapshot"))
    /\ ((args.bg => ZeroSize(args.bgSize)) /\ (args.snap => ZeroSize(args.snapSize))
          => Painted("placeholder"))

\* C22: every paint draws exactly one of three layouts, chosen by the image
\* handles alone: side by side (the snapshot in the right part of the card)
\* iff there is a snapshot, stacked (the image across the card) iff there is a
\* background image and no snapshot, the placeholder panel iff there is
\* neither; the accent pattern is drawn iff there is neither.
MediaWidths ==
  UNION {{ink[k].shapes[j].at[1][1] :
            j \in {n \in 1 .. Len(ink[k].shapes) : ink[k].shapes[n].name = "media"}} :
         k \in {m \in 1 .. Len(ink) : ink[m].op = "stroke"}}
SideBySide == MediaWidths # {} /\ \A w \in MediaWidths : w < InnerWidth(args)
Stacked == MediaWidths = {InnerWidth(args)}
Placeholder == Painted("placeholder")
C22_LayoutFollowsImages ==
  calls > 0 =>
    /\ (SideBySide <=> args.snap)
    /\ (Stacked <=> ~args.snap /\ args.bg)
    /\ (Placeholder <=> ~args.snap /\ ~args.bg)
    /\ (Painted("accent") <=> ~args.snap /\ ~args.bg)
    /\ ~(SideBySide /\ Stacked) /\ ~(SideBySide /\ Placeholder)
    /\ ~(Stacked /\ Placeholder)
    /\ (SideBySide => Painted("snapshot"))
C22_Witness ==
  /\ calls > 0
  /\ ~args.bg /\ ~args.snap /\ args.code = "none"
  /\ args.bullets = 0 /\ ~args.excerpt
  /\ Placeholder /\ Painted("accent")

\* C23: the excerpt lines painted are as many whole lines as fit in the panel
\* (all of them when all fit), and every painted line lies inside the panel:
\* its top plus the line height is not below the bottom of the panel.
ExcerptLineMarks ==
  SelectSeq(ink, LAMBDA m : m.op = "fillText" /\ m.shapes[1].name = "excerptLine")
LineBottom(m) == m.shapes[1].at[1] + Px(EXCERPT_LINE)
WholeLinesThatFit(height) ==
  Max(0, (height - Px(EXCERPT_HEADER) - Px(EXCERPT_PADDING) \div 2) \div Px(EXCERPT_LINE))
C23_WholeLinesInsidePanel ==
  calls > 0 /\ ExcerptDrawn(args) =>
    /\ \A k \in 1 .. Len(ExcerptLineMarks) :
         LineBottom(ExcerptLineMarks[k]) <= ExcerptLineMarks[k].shapes[1].at[2]
    /\ Len(ExcerptLineMarks)
         = Min(args.excerptLines, WholeLinesThatFit(ExcerptHeight(args)))

\* C24 as stated: every string a wrapping routine hands to fillText measures at
\* most the available width, unless it holds a single word that is itself
\* wider than the available width; a word wider than the available width is
\* alone on its line.
WordsOf(s) == IF Trim(s) = <<>> THEN <<>> ELSE SplitRuns(Trim(s))
TooWide(s) == Measure(s) > maxWidth
AloneWhenTooWide ==
  \A k \in 1 .. Len(lines) :
    \A j \in 1 .. Len(WordsOf(lines[k])) :
      TooWide(WordsOf(lines[k])[j]) => Len(WordsOf(lines[k])) = 1
C24_EmittedLinesFit ==
  /\ \A k \in 1 .. Len(lines) :
       TooWide(lines[k]) => Len(WordsOf(lines[k])) = 1 /\ TooWide(WordsOf(lines[k])[1])
  /\ AloneWhenTooWide

\* C24, amended: the same for every line measured up to the end of its last
\* word, that is without the blank wrapText leaves at the end of a line that
\* is not the last.
C24_LinesFit ==
  /\ \A k \in 1 .. Len(lines) :
       TooWide(TrimEnd(lines[k])) =>
         Len(WordsOf(lines[k])) = 1 /\ TooWide(WordsOf(lines[k])[1])
  /\ AloneWhenTooWide
  /\ (routine \in {"drawBulletList", "drawPdfExcerpt"} =>
        \A k \in 1 .. Len(lines) : TrimEnd(lines[k]) = lines[k])
C24_Witness ==
  /\ routine = "wrapText"
  /\ Len(lines) = 2
  /\ TooWide(lines[1]) /\ ~TooWide(TrimEnd(lines[1]))
  /\ TooWide(lines[2])

\* C25: getThemeStyle returns the base theme for an absent visualTheme and for
\* every string that is not a key of the theme table, and a style with every
\* field defined for a key of the table.
C25_UnknownThemeIsBase ==
  calls > 0 =>
    IF args.visualTheme.given /\ args.visualTheme.name \in DOMAIN THEME_STYLES
      THEN \A f \in ThemeFields : themeStyle[f] \notin {"undefined", "none"}
      ELSE themeStyle = BASE_THEME_STYLE

\* C28: when a slide is painted with a snapshot, the page number handed to the
\* composer for the labels is the number of the page that was rasterized, the
\* slide's page clamped into 1 .. pageCount.
C28_LabelIsRasterizedPage ==
  painted.initial /\ painted.snap = "img" =>
    painted.pdfPage = RenderedPage(resolvedPdfPage, totalPdfPages)

\* C29: the words of the lines drawn by wrapText and by the bullet list, read
\* in line order, are the white-space separated words of the text in their
\* order: none is dropped, duplicated or moved, and the last line is drawn.
RECURSIVE Flatten(_)
Flatten(ss) == IF ss = <<>> THEN <<>> ELSE Head(ss) \o Flatten(Tail(ss))
WordsOfLines == Flatten([k \in 1 .. Len(lines) |-> WordsOf(lines[k])])
C29_WrapKeepsWords ==
  routine \in {"wrapText", "drawBulletList"} =>
    /\ WordsOfLines = WordsOf(text)
    /\ \A k \in 1 .. Len(lines) : WordsOf(lines[k]) # <<>>
C29_Witness ==
  /\ routine = "drawBulletList"
  /\ Len(lines) = 2
  /\ Len(WordsOf(lines[1])) = 2
  /\ lines[1] # lines[2]
  /\ Len(text) = MaxLen

\* C27: in the exporter of services/videoExporter.ts an error event of the
\* audio that is playing ends the wait for the end of the playback, and the
\* call goes on to settle.
C27_ErrorEndsWait == (pc = "simpleEnded" /\ audio = "error") ~> Settled

\* C26: a timer that is running when the component unmounts is running again
\* when it is mounted before the stored end time: same phase, same end time,
\* remaining = floor((endAt - now) / 1000).
C26_RunningSurvivesRemount ==
  [][(lastEvent' = "mount" /\ running /\ Truthy(endAt) /\ clock < endAt)
       => /\ running'
          /\ phase' = phase
          /\ endAt' = endAt
          /\ remaining' = (endAt - clock) \div 1000]_vars

\* a break that was running comes back after a remount with part of it gone
C26_Witness ==
  /\ lastEvent = "mount"
  /\ running
  /\ phase # "focus"
  /\ clock < endAt
  /\ remaining < durations[phase] - 1

\* C30: Skip ends the current phase in every state, running or paused: the
\* timer moves to the next phase and is stopped.
C30_SkipEndsPhase ==
  [][lastEvent' = "skip"
       => /\ phase' = NextPhase(phase, completedFocus)
          /\ ~running']_vars
====
